---- MODULE Spec2Model ----
(***************************************************************************)
(* Snapshot manager of chuk-mcp-virtual-fs (SimpleSnapshotManager in       *)
(* simple_snapshot_manager.py): capture, restore, persist, export and      *)
(* import of snapshots of a managed virtual filesystem; and the filesystem *)
(* cache and per-filesystem manager of tools.py.                           *)
(*                                                                         *)
(* Paths are sequences of tokens ("/", a name, an extension), so that      *)
(* str.startswith, os.path.dirname, str.lstrip and str.endswith are        *)
(* computed on the path's text.  Text is a sequence of code points, file   *)
(* content is a sequence of bytes; UTF-8 and base64 are computed.          *)
(***************************************************************************)
EXTENDS Integers, Sequences, FiniteSets, TLC

VARIABLES
    caps,           \* what the managed filesystem object offers (hasattr / signature)
    fs,             \* the managed filesystem: path -> node
    ext,            \* files outside the managed filesystem (export / import targets)
    clock,          \* datetime.now()
    snapshots,      \* SimpleSnapshotManager._snapshots (a dict, in insertion order)
    snapshot_data,  \* SimpleSnapshotManager._snapshot_data
    last,           \* the last call: operation, arguments, outcome
    treeAt,         \* history: the tree each snapshot name was captured from
    pristine,       \* history: every save succeeded, no restore wrote a document's path
    tools,          \* tools.py: _fs_cache, the filesystems and managers of the tools
    inflight,       \* the create_snapshot calls in progress: position and locals
    mem             \* a second filesystem with the in-memory manager of tools.py

vars == <<caps, fs, ext, clock, snapshots, snapshot_data, last, treeAt, pristine, tools,
          inflight, mem>>

-----------------------------------------------------------------------------
(* Bounds *)

MaxClock == 2
MaxFaults == 1
MaxInstances == 3

-----------------------------------------------------------------------------
(* Paths *)

Names == {"s1", "s2"}

Root == <<"/">>

\* self.snapshot_dir = "/.snapshots"
SnapshotDir == <<"/", ".snapshots">>

PathA == <<"/", "a">>
PathD == <<"/", "d">>
PathDX == <<"/", "d", "/", "x">>
\* a top-level file whose name merely starts with the reserved directory's name
PathSibling == <<"/", ".snapshots", ".txt">>

\* snapshot_path = f"{self.snapshot_dir}/{name}.json"
SnapshotPath(name) == SnapshotDir \o <<"/", name, ".json">>

UserPaths == {PathA, PathD, PathDX, PathSibling}
\* f"imported_{int(time.time())}"
ImportedName(now) == "imported_" \o ToString(now)

GeneratedNames == {ImportedName(t) : t \in 0..MaxClock}
DocPaths == {SnapshotPath(n) : n \in Names \cup GeneratedNames}
AllPaths == UserPaths \cup {SnapshotDir} \cup DocPaths

\* str.startswith
StartsWith(p, q) == Len(p) >= Len(q) /\ SubSeq(p, 1, Len(q)) = q

\* str.endswith
EndsWith(p, q) == Len(p) >= Len(q) /\ SubSeq(p, Len(p) - Len(q) + 1, Len(p)) = q

\* index of the last "/" token of p (0 when there is none)
LastSlash(p) ==
    LET S == {i \in 1..Len(p) : p[i] = "/"}
    IN  IF S = {} THEN 0 ELSE CHOOSE i \in S : \A j \in S : j <= i

\* os.path.dirname: "/a" -> "/", "/d/x" -> "/d", "a" -> ""
Dirname(p) ==
    LET i == LastSlash(p)
    IN  IF i = 0 THEN <<>> ELSE IF i = 1 THEN Root ELSE SubSeq(p, 1, i - 1)

\* the entry name of a path: what ls(dirname) lists it as
Basename(p) == SubSeq(p, LastSlash(p) + 1, Len(p))

\* str.lstrip('/')
LStripSlash(p) ==
    LET S == {i \in 1..Len(p) : p[i] # "/"}
    IN  IF S = {} THEN <<>>
        ELSE SubSeq(p, CHOOSE i \in S : \A j \in S : i <= j, Len(p))

\* p is the directory d or lies beneath it (the directory reading of "reserved")
Beneath(p, d) == p = d \/ StartsWith(p, d \o <<"/">>)

Reserved(p) == Beneath(p, SnapshotDir)

-----------------------------------------------------------------------------
(* Text and bytes *)

\* str.encode("utf-8") of one code point (U+0000..U+07FF)
EncodePoint(c) ==
    IF c < 128 THEN <<c>> ELSE <<192 + (c \div 64), 128 + (c % 64)>>

RECURSIVE Utf8Encode(_)
Utf8Encode(text) ==
    IF text = <<>> THEN <<>>
    ELSE EncodePoint(Head(text)) \o Utf8Encode(Tail(text))

IsCont(b) == b >= 128 /\ b < 192

\* bytes.decode("utf-8") succeeds (one- and two-byte forms; 0xC0, 0xC1 and
\* everything from 0xE0 up is rejected, as is a stray continuation byte)
RECURSIVE Utf8Valid(_)
Utf8Valid(bytes) ==
    IF bytes = <<>> THEN TRUE
    ELSE IF bytes[1] < 128 THEN Utf8Valid(Tail(bytes))
    ELSE IF bytes[1] >= 194 /\ bytes[1] < 224 /\ Len(bytes) >= 2 /\ IsCont(bytes[2])
         THEN Utf8Valid(Tail(Tail(bytes)))
    ELSE FALSE

RECURSIVE Utf8Decode(_)
Utf8Decode(bytes) ==
    IF bytes = <<>> THEN <<>>
    ELSE IF bytes[1] < 128 THEN <<bytes[1]>> \o Utf8Decode(Tail(bytes))
    ELSE <<(bytes[1] - 192) * 64 + (bytes[2] - 128)>> \o Utf8Decode(Tail(Tail(bytes)))

\* the base64 alphabet: A-Z a-z 0-9 + /
B64Char(i) ==
    IF i < 26 THEN 65 + i
    ELSE IF i < 52 THEN 71 + i
    ELSE IF i < 62 THEN i - 4
    ELSE IF i = 62 THEN 43 ELSE 47

IsB64Char(c) ==
    \/ (c >= 65 /\ c <= 90) \/ (c >= 97 /\ c <= 122) \/ (c >= 48 /\ c <= 57)
    \/ c = 43 \/ c = 47

B64Val(c) ==
    IF c >= 65 /\ c <= 90 THEN c - 65
    ELSE IF c >= 97 /\ c <= 122 THEN c - 71
    ELSE IF c >= 48 /\ c <= 57 THEN c + 4
    ELSE IF c = 43 THEN 62 ELSE 63

\* base64.b64encode(b).decode('ascii')
RECURSIVE B64Encode(_)
B64Encode(bytes) ==
    IF bytes = <<>> THEN <<>>
    ELSE IF Len(bytes) = 1 THEN
        << B64Char(bytes[1] \div 4), B64Char((bytes[1] % 4) * 16), 61, 61 >>
    ELSE IF Len(bytes) = 2 THEN
        << B64Char(bytes[1] \div 4),
           B64Char((bytes[1] % 4) * 16 + bytes[2] \div 16),
           B64Char((bytes[2] % 16) * 4), 61 >>
    ELSE
        << B64Char(bytes[1] \div 4),
           B64Char((bytes[1] % 4) * 16 + bytes[2] \div 16),
           B64Char((bytes[2] % 16) * 4 + bytes[3] \div 64),
           B64Char(bytes[3] % 64) >>
        \o B64Encode(SubSeq(bytes, 4, Len(bytes)))

\* base64.b64decode accepts the text: after discarding the characters outside
\* the alphabet, whole quanta of four, padding only at the end
B64Data(text) == SelectSeq(text, IsB64Char)
B64Pad(text) == Len(SelectSeq(text, LAMBDA c : c = 61))

B64Ok(text) ==
    LET n == Len(B64Data(text))
    IN  \/ n % 4 = 0
        \/ n % 4 = 2 /\ B64Pad(text) >= 2
        \/ n % 4 = 3 /\ B64Pad(text) >= 1

RECURSIVE B64DecodeData(_)
B64DecodeData(d) ==
    IF Len(d) < 2 THEN <<>>
    ELSE IF Len(d) = 2 THEN
        << B64Val(d[1]) * 4 + B64Val(d[2]) \div 16 >>
    ELSE IF Len(d) = 3 THEN
        << B64Val(d[1]) * 4 + B64Val(d[2]) \div 16,
           (B64Val(d[2]) % 16) * 16 + B64Val(d[3]) \div 4 >>
    ELSE
        << B64Val(d[1]) * 4 + B64Val(d[2]) \div 16,
           (B64Val(d[2]) % 16) * 16 + B64Val(d[3]) \div 4,
           (B64Val(d[3]) % 4) * 64 + B64Val(d[4]) >>
        \o B64DecodeData(SubSeq(d, 5, Len(d)))

\* base64.b64decode
B64Decode(text) == B64DecodeData(B64Data(text))

\* The contents a caller writes.
\* the text "AP8Q"
TextPlain == <<65, 80, 56, 81>>
\* the bytes 0x00 0xFF 0x10: not UTF-8
BytesBinary == <<0, 255, 16>>
\* the text "b'QVA4UQ=='": it begins with b' and ends with '
TextMarker == <<98, 39, 81, 86, 65, 52, 85, 81, 61, 61, 39>>


-----------------------------------------------------------------------------
(* Values held in memory and in JSON documents *)

\* a datetime, an ISO-8601 string, a string that is no timestamp, or None
DateTime(t) == [k |-> "datetime", t |-> t]
IsoStr(t) == [k |-> "isostr", t |-> t]
BadStr == [k |-> "badstr", t |-> 0]
NoneVal == [k |-> "none", t |-> 0]

\* datetime.isoformat
IsoFormat(v) == IsoStr(v.t)

\* datetime.fromisoformat raises ValueError
FromIsoRaises(v) == v.k # "isostr"

\* datetime.fromisoformat
FromIsoFormat(v) == DateTime(v.t)

\* isinstance(v, str)
IsStr(v) == v.k \in {"isostr", "badstr"}

\* isinstance(v, datetime)
IsDateTime(v) == v.k = "datetime"

EmptyFiles == <<>>

\* a JSON object: the fields it has and their values
Doc(name, description, created, files) ==
    [has |-> {"name", "description", "created", "files"}, name |-> name,
     description |-> description, created |-> created, files |-> files]

NoDoc == [has |-> {}, name |-> "", description |-> "", created |-> NoneVal,
          files |-> EmptyFiles]

\* data.get(key, default)
DocGet(doc, key, default) == IF key \in doc.has THEN doc[key] ELSE default

-----------------------------------------------------------------------------
(* The managed filesystem: the capability contract the manager calls *)

Absent == [t |-> "absent", bytes |-> <<>>, doc |-> NoDoc]
Dir == [t |-> "dir", bytes |-> <<>>, doc |-> NoDoc]
\* a file holding bytes
File(bytes) == [t |-> "file", bytes |-> bytes, doc |-> NoDoc]
\* a file holding the text json.dumps(doc)
JsonFile(doc) == [t |-> "json", bytes |-> <<>>, doc |-> doc]

IsFileNode(n) == n.t \in {"file", "json"}

NodeAt(f, p) == IF p = Root THEN Dir ELSE IF p \in DOMAIN f THEN f[p] ELSE Absent

\* fs.exists(path)
Exists(f, p) == NodeAt(f, p).t # "absent"

\* fs.get_node_info(path).is_dir; no node info: the caller keeps is_dir = False
IsDir(f, p) == NodeAt(f, p).t = "dir"

\* fs.find("/", recursive=True): every file and directory below the root
Find(f) == {p \in DOMAIN f : f[p].t # "absent"}

\* fs.ls(path): the entry names of a directory
Ls(f, d) == {Basename(p) : p \in {q \in DOMAIN f : f[q].t # "absent" /\ Dirname(q) = d}}

FsOk(f) == [ok |-> TRUE, fs |-> f]
FsFail(f) == [ok |-> FALSE, fs |-> f]

\* fs.write_file(path, content): creates or overwrites a file; the parent must
\* be a directory and the path must not be one
WriteNode(f, p, node) ==
    IF p \notin DOMAIN f \/ f[p].t = "dir" \/ ~IsDir(f, Dirname(p))
    THEN FsFail(f)
    ELSE FsOk([f EXCEPT ![p] = node])

\* fs.mkdir(path, recursive): idempotent when the directory exists
RECURSIVE Mkdir(_, _, _)
Mkdir(f, p, recursive) ==
    IF IsDir(f, p) THEN FsOk(f)
    ELSE IF p \notin DOMAIN f \/ IsFileNode(f[p]) THEN FsFail(f)
    ELSE IF IsDir(f, Dirname(p)) THEN FsOk([f EXCEPT ![p] = Dir])
    ELSE IF ~recursive THEN FsFail(f)
    ELSE LET up == Mkdir(f, Dirname(p), TRUE)
         IN  IF up.ok THEN FsOk([up.fs EXCEPT ![p] = Dir]) ELSE up

\* fs.rm(path): removes a file
Rm(f, p) ==
    IF p \in DOMAIN f /\ IsFileNode(f[p]) THEN FsOk([f EXCEPT ![p] = Absent])
    ELSE FsFail(f)

\* fs.rmdir(path, recursive=True): removes a directory and what it holds
Rmdir(f, p) ==
    IF IsDir(f, p) /\ p # Root
    THEN FsOk([q \in DOMAIN f |-> IF Beneath(q, p) THEN Absent ELSE f[q]])
    ELSE FsFail(f)

\* fs.read_file(path, encoding="utf-8") raises ValueError (UnicodeDecodeError)
ReadTextRaises(f, p) == ~Utf8Valid(f[p].bytes)

\* fs.read_file(path, encoding="utf-8")
ReadText(f, p) == Utf8Decode(f[p].bytes)

\* fs.read_file(path): the raw bytes
ReadBytes(f, p) == f[p].bytes

-----------------------------------------------------------------------------
(* Python dict, in insertion order, as a sequence of entries keyed by name *)

DictKeys(d) == {d[i].name : i \in DOMAIN d}

DictGet(d, key) == d[CHOOSE i \in DOMAIN d : d[i].name = key]

\* a list in place of the dict: the entry is appended even when the key exists
DictAppend(d, key, value) == Append(d, value)

\* a dict that holds only what was stored last
DictOnly(d, key, value) == <<value>>

\* the payload is stored and the assignment of the index entry is left out
DictSkip(d, key, value) == d

\* d[key] = value
DictSet(d, key, value) ==
    IF key \in DictKeys(d)
    THEN [i \in DOMAIN d |-> IF d[i].name = key THEN value ELSE d[i]]
    ELSE Append(d, value)

\* _snapshot_data[key] = value that leaves a payload already held in place
DataKeep(data, key, value) ==
    [k \in DOMAIN data \cup {key} |-> IF k \in DOMAIN data THEN data[k] ELSE value]

\* _snapshot_data[key] = value
DataSet(data, key, value) ==
    [k \in DOMAIN data \cup {key} |-> IF k = key THEN value ELSE data[k]]


-----------------------------------------------------------------------------
(* SimpleSnapshotManager: helpers *)

\* a snapshot's metadata: an entry of _snapshots
Meta(name, description, created) ==
    [name |-> name, description |-> description, created |-> created]

\* the enumeration without the exclusion of snapshot_dir
EnumerateUnfiltered(c, f) ==
    IF c.hasFind THEN Find(f) ELSE {Root \o item : item \in Ls(f, Root)}

\* the paths a capture or a restore looks at: fs.find("/", recursive=True)
\* without what starts with snapshot_dir, or, without find, the entries of
\* ls("/") other than snapshot_dir.lstrip('/')
Enumerate(c, f) ==
    IF c.hasFind
    THEN {p \in Find(f) : ~StartsWith(p, SnapshotDir)}
    ELSE {Root \o item : item \in {i \in Ls(f, Root) : i # LStripSlash(SnapshotDir)}}

\* the string create_snapshot stores for a file: its text, or the base64 of
\* its bytes when the text read raises ValueError
Stored(f, p) ==
    IF ReadTextRaises(f, p) THEN B64Encode(ReadBytes(f, p)) ELSE ReadText(f, p)

\* the call fs.find("/") or fs.ls("/") of an enumeration, as a name in the
\* sets of operations that raise
EnumCall == <<"find", "/">>

\* the classification that takes a path without node info for a directory
ClassifiedDirStrict(c, f, p) == ~c.hasNodeInfo \/ IsDir(f, p)

\* is_dir of create_snapshot and restore_snapshot: False unless the
\* filesystem has get_node_info and the node info says is_dir
ClassifiedDir(c, f, p) == c.hasNodeInfo /\ IsDir(f, p)

\* the loop of create_snapshot over the enumerated paths; a read that raises
\* (bad, or the read of a directory) skips the path, an enumeration that
\* raises leaves no path
CapturePayload(c, f, bad) ==
    LET paths == IF EnumCall \in bad THEN {} ELSE Enumerate(c, f)
        kept == {p \in paths : ~ClassifiedDir(c, f, p) /\ p \notin bad /\ IsFileNode(NodeAt(f, p))}
    IN  [p \in kept |-> Stored(f, p)]

\* export_data without the "files" entry's content
ExportDataNoFiles(snaps, data, name) ==
    LET m == DictGet(snaps, name)
    IN  Doc(m.name, m.description,
            IF IsDateTime(m.created) THEN IsoFormat(m.created) ELSE m.created,
            EmptyFiles)

\* export_data of _save_snapshot and export_snapshot: the metadata, the files,
\* and created as an ISO string when it is a datetime
ExportData(snaps, data, name) ==
    LET m == DictGet(snaps, name)
    IN  Doc(m.name, m.description,
            IF IsDateTime(m.created) THEN IsoFormat(m.created) ELSE m.created,
            data[name])

\* _save_snapshot that writes every snapshot to the one file s1.json
SaveSnapshotOneFile(f, snaps, data, name, saveFault) ==
    IF name \notin DictKeys(snaps) THEN FsFail(f)
    ELSE LET f1 == IF ~Exists(f, SnapshotDir) /\ saveFault # "mkdir"
                   THEN Mkdir(f, SnapshotDir, FALSE).fs ELSE f
         IN  IF saveFault = "write" THEN FsFail(f1)
             ELSE WriteNode(f1, SnapshotPath("s1"), JsonFile(ExportData(snaps, data, name)))

\* _save_snapshot: make sure the directory exists (a failure is only logged),
\* then write <snapshot_dir>/<name>.json; ok is its return value. saveFault
\* is the call that is made to raise: "mkdir", "write", or "none"
SaveSnapshot(f, snaps, data, name, saveFault) ==
    IF name \notin DictKeys(snaps) THEN FsFail(f)
    ELSE LET f1 == IF ~Exists(f, SnapshotDir) /\ saveFault # "mkdir"
                   THEN Mkdir(f, SnapshotDir, FALSE).fs ELSE f
         IN  IF saveFault = "write" THEN FsFail(f1)
             ELSE WriteNode(f1, SnapshotPath(name), JsonFile(ExportData(snaps, data, name)))

\* the entry without the conversion of the created string to a datetime
LoadedMetaRaw(name, doc, now) ==
    Meta(name, DocGet(doc, "description", ""), DocGet(doc, "created", NoneVal))

\* one *.json entry of _load_snapshots: the metadata and the files it yields
LoadedMeta(name, doc, now) ==
    LET created == DocGet(doc, "created", NoneVal)
    IN  Meta(name, DocGet(doc, "description", ""),
             IF IsStr(created)
             THEN (IF FromIsoRaises(created) THEN DateTime(now) ELSE FromIsoFormat(created))
             ELSE created)

LoadedFiles(doc) == DocGet(doc, "files", EmptyFiles)

\* every entry of ls(snapshot_dir) that ends in .json, parsed or not
LoadableItemsAny(f) ==
    {item \in Ls(f, SnapshotDir) : EndsWith(item, <<".json">>)}

\* the entries of ls(snapshot_dir) that end in .json and hold a JSON object
LoadableItems(f) ==
    {item \in Ls(f, SnapshotDir) :
        /\ EndsWith(item, <<".json">>)
        /\ NodeAt(f, SnapshotDir \o <<"/">> \o item).t = "json"}

\* item[:-5]
ItemName(item) == SubSeq(item, 1, Len(item) - 1)[1]

\* _load_snapshots into the (empty) dicts of a new manager
RECURSIVE LoadItems(_, _, _, _, _)
LoadItems(f, items, snaps, data, now) ==
    IF items = {} THEN [snapshots |-> snaps, data |-> data]
    ELSE LET item == CHOOSE i \in items : TRUE
             name == ItemName(item)
             doc == NodeAt(f, SnapshotDir \o <<"/">> \o item).doc
         IN  LoadItems(f, items \ {item},
                       DictSet(snaps, name, LoadedMeta(name, doc, now)),
                       DataSet(data, name, LoadedFiles(doc)), now)

LoadSnapshots(f, now) ==
    IF Exists(f, SnapshotDir) /\ IsDir(f, SnapshotDir)
    THEN LoadItems(f, LoadableItems(f), <<>>, <<>>, now)
    ELSE [snapshots |-> <<>>, data |-> <<>>]

\* _load_snapshots when the calls naming the paths of bad raise: exists or ls
\* of snapshot_dir raising ends the load, read_file of a document raising
\* skips that document
LoadSnapshotsWith(f, now, bad) ==
    IF SnapshotDir \notin bad /\ Exists(f, SnapshotDir) /\ IsDir(f, SnapshotDir)
    THEN LoadItems(f, {item \in LoadableItems(f) : SnapshotDir \o <<"/">> \o item \notin bad},
                   <<>>, <<>>, now)
    ELSE [snapshots |-> <<>>, data |-> <<>>]

\* __init__: mkdir(snapshot_dir) when exists says it is missing (a raise of
\* either call is only logged), then _load_snapshots
Construct(f, now, bad) ==
    LET f1 == IF SnapshotDir \notin bad /\ ~Exists(f, SnapshotDir)
              THEN Mkdir(f, SnapshotDir, FALSE).fs ELSE f
        loaded == LoadSnapshotsWith(f1, now, bad)
    IN  [fs |-> f1, snapshots |-> loaded.snapshots, data |-> loaded.data]

\* what restore_snapshot hands to write_file: the content with encoding="utf-8";
\* when that call raises TypeError, the base64-decoded inside of a content
\* that starts with b' and ends with ', else the content as it is
WriteArg(c, text) ==
    IF c.wfEncoding THEN [ok |-> TRUE, bytes |-> Utf8Encode(text)]
    ELSE IF StartsWith(text, <<98, 39>>) /\ EndsWith(text, <<39>>)
         THEN LET inner == SubSeq(text, 3, Len(text) - 1)
              IN  IF B64Ok(inner) THEN [ok |-> TRUE, bytes |-> B64Decode(inner)]
                  ELSE [ok |-> FALSE, bytes |-> <<>>]
         ELSE [ok |-> TRUE, bytes |-> Utf8Encode(text)]

\* the deletion phase that removes the files of the payload as well
RestoreRemovesAll(c, f, payload, bad) ==
    {p \in Enumerate(c, f) : ~ClassifiedDir(c, f, p) /\ p \notin bad /\ Rm(f, p).ok}

\* deletion phase of restore_snapshot: the files it removes
RestoreRemoves(c, f, payload, bad) ==
    {p \in Enumerate(c, f) \ DOMAIN payload :
        ~ClassifiedDir(c, f, p) /\ p \notin bad /\ Rm(f, p).ok}

\* directory phase: mkdir(dirname(path), recursive=True) for every payload path
RECURSIVE RestoreMkdirs(_, _, _)
RestoreMkdirs(f, todo, bad) ==
    IF todo = {} THEN FsOk(f)
    ELSE LET p == CHOOSE q \in todo : TRUE
             parent == Dirname(p)
             one == IF parent = <<>> THEN FsOk(f)
                    ELSE IF parent \in bad THEN FsFail(f)
                    ELSE Mkdir(f, parent, TRUE)
             rest == RestoreMkdirs(one.fs, todo \ {p}, bad)
         IN  [ok |-> one.ok /\ rest.ok, fs |-> rest.fs]

\* write phase: one payload entry
RestoreWrite(c, f, p, text, bad) ==
    LET arg == WriteArg(c, text)
    IN  IF ~arg.ok \/ p \in bad THEN FsFail(f)
        ELSE WriteNode(f, p, File(arg.bytes))

RECURSIVE RestoreWrites(_, _, _, _, _)
RestoreWrites(c, f, payload, todo, bad) ==
    IF todo = {} THEN FsOk(f)
    ELSE LET p == CHOOSE q \in todo : TRUE
             one == RestoreWrite(c, f, p, payload[p], bad)
             rest == RestoreWrites(c, one.fs, payload, todo \ {p}, bad)
         IN  [ok |-> one.ok /\ rest.ok, fs |-> rest.fs]

\* the elements of a set, in the order the loops visit them
RECURSIVE SeqOf(_)
SeqOf(S) ==
    IF S = {} THEN <<>>
    ELSE LET p == CHOOSE q \in S : TRUE IN <<p>> \o SeqOf(S \ {p})

\* a call restore_snapshot makes on the filesystem
FsCall(op, path) == [op |-> op, path |-> path]

RECURSIVE CallsOver(_, _)
CallsOver(op, paths) ==
    IF paths = <<>> THEN <<>>
    ELSE <<FsCall(op, Head(paths))>> \o CallsOver(op, Tail(paths))

\* the deletion phase that removes the directories outside the payload too
RmTargetsWithDirs(c, f, payload) == Enumerate(c, f) \ DOMAIN payload

\* the paths the deletion phase calls rm for
RmTargets(c, f, payload) ==
    {p \in Enumerate(c, f) \ DOMAIN payload : ~ClassifiedDir(c, f, p)}

\* the directories the directory phase calls mkdir for, one per payload path
RECURSIVE ParentsOf(_)
ParentsOf(paths) ==
    IF paths = <<>> THEN <<>>
    ELSE (IF Dirname(Head(paths)) = <<>> THEN <<>> ELSE <<Dirname(Head(paths))>>)
         \o ParentsOf(Tail(paths))

\* restore_snapshot that makes the directory of a file right before it
\* writes the file
RECURSIVE InterleavedCalls(_)
InterleavedCalls(paths) ==
    IF paths = <<>> THEN <<>>
    ELSE CallsOver("mkdir", ParentsOf(<<Head(paths)>>))
         \o <<FsCall("write_file", Head(paths))>> \o InterleavedCalls(Tail(paths))

RestoreCallsInterleaved(c, f, payload) ==
    CallsOver("rm", SeqOf(RmTargets(c, f, payload)))
    \o InterleavedCalls(SeqOf(DOMAIN payload))

\* the calls restore_snapshot makes on the filesystem, in order: the three
\* loops, each a call per path whether it raises or not
RestoreCalls(c, f, payload) ==
    CallsOver("rm", SeqOf(RmTargets(c, f, payload)))
    \o CallsOver("mkdir", ParentsOf(SeqOf(DOMAIN payload)))
    \o CallsOver("write_file", SeqOf(DOMAIN payload))

\* the tree after one call of restore_snapshot; a call on a path of bad raises
ApplyCall(c, f, payload, call, bad) ==
    IF call.path \in bad THEN f
    ELSE CASE call.op = "rm" -> Rm(f, call.path).fs
           [] call.op = "mkdir" -> Mkdir(f, call.path, TRUE).fs
           [] OTHER -> RestoreWrite(c, f, call.path, payload[call.path], bad).fs

\* the tree after the calls, made one after the other
RECURSIVE ApplyCalls(_, _, _, _, _)
ApplyCalls(c, f, payload, calls, bad) ==
    IF calls = <<>> THEN f
    ELSE ApplyCalls(c, ApplyCall(c, f, payload, Head(calls), bad), payload, Tail(calls), bad)

\* restore_snapshot whose first failing operation ends the restore
RestoreFsAbort(c, f, payload, bad) ==
    LET removed == RestoreRemoves(c, f, payload, bad)
        rmFailed == \E p \in Enumerate(c, f) \ DOMAIN payload :
                        ~ClassifiedDir(c, f, p) /\ p \notin removed
        f1 == [p \in DOMAIN f |-> IF p \in removed THEN Absent ELSE f[p]]
        r2 == RestoreMkdirs(f1, DOMAIN payload, bad)
        r3 == RestoreWrites(c, r2.fs, payload, DOMAIN payload, bad)
    IN  IF rmFailed THEN [fs |-> f, ok |-> FALSE, removed |-> {}]
        ELSE IF ~r2.ok THEN [fs |-> f1, ok |-> FALSE, removed |-> removed]
        ELSE IF ~r3.ok THEN [fs |-> r2.fs, ok |-> FALSE, removed |-> removed]
        ELSE [fs |-> r3.fs, ok |-> TRUE, removed |-> removed]

\* the three phases of restore_snapshot on a payload: the tree it leaves,
\* whether every operation succeeded, and the files it removed
RestoreFs(c, f, payload, bad) ==
    LET removed == RestoreRemoves(c, f, payload, bad)
        rmFailed == \E p \in Enumerate(c, f) \ DOMAIN payload :
                        ~ClassifiedDir(c, f, p) /\ p \notin removed
        f1 == [p \in DOMAIN f |-> IF p \in removed THEN Absent ELSE f[p]]
        r2 == RestoreMkdirs(f1, DOMAIN payload, bad)
        r3 == RestoreWrites(c, r2.fs, payload, DOMAIN payload, bad)
    IN  [fs |-> r3.fs, ok |-> ~rmFailed /\ r2.ok /\ r3.ok, removed |-> removed]


-----------------------------------------------------------------------------
(* Inputs *)

\* what callers write into the tree, (path, bytes): one file with each kind
\* of content
WriteInputs ==
    { <<PathA, Utf8Encode(TextPlain)>>, <<PathA, BytesBinary>>,
      <<PathA, Utf8Encode(TextMarker)>> }

\* what callers write into the tree, (path, bytes): plain text at a path that
\* is a file or a directory, beneath it, and beside the reserved directory
TreeInputs ==
    { <<PathD, Utf8Encode(TextPlain)>>, <<PathDX, Utf8Encode(TextPlain)>>,
      <<PathSibling, Utf8Encode(TextPlain)>> }

\* a top-level file, a nested one and the reserved directory's sibling, for
\* the operations that are made to raise
FaultInputs ==
    { <<PathA, Utf8Encode(TextPlain)>>,
      <<PathDX, Utf8Encode(TextPlain)>>,
      <<PathSibling, Utf8Encode(TextPlain)>> }

\* the calls of _save_snapshot that can be made to raise
SaveFaults == {"none", "mkdir", "write"}

\* the operations that can be made to raise, by the path they are given
FaultPaths == {PathA, PathD, PathDX, EnumCall}

\* the arguments of create_snapshot: the name, and the description ("" is None)
CreateInputs == {<<"s1", "">>, <<"s2", "desc">>}

\* the new_name argument of import_snapshot ("" is None)
ImportNames == {"s2", ""}

ExportPath == "/tmp/out.json"
ForeignPath == "/tmp/foreign.json"
ExtPaths == {ExportPath, ForeignPath}

\* a document written by something else than this manager: no description, a
\* created field that is no timestamp, and a key beneath the reserved directory
ForeignDoc ==
    [has |-> {"name", "created", "files"}, name |-> "s2", description |-> "",
     created |-> BadStr,
     files |-> [p \in {PathA, SnapshotPath("s1")} |-> TextPlain]]

ExtMissing == [t |-> "missing", doc |-> NoDoc, exportedOf |-> "", exported |-> EmptyFiles]

\* a file that is no JSON, and a file whose JSON is a list
ExtText == [t |-> "text", doc |-> NoDoc, exportedOf |-> "", exported |-> EmptyFiles]
ExtArray == [t |-> "array", doc |-> NoDoc, exportedOf |-> "", exported |-> EmptyFiles]

\* a document with neither name nor created
NoNameDoc ==
    [has |-> {"description", "files"}, name |-> "", description |-> "d",
     created |-> NoneVal, files |-> [p \in {PathA} |-> TextPlain]]

NoNamePath == "/tmp/noname.json"
MissingPath == "/tmp/missing.json"
TextPath == "/tmp/text.json"
ArrayPath == "/tmp/array.json"
OtherExtPaths == {NoNamePath, MissingPath, TextPath, ArrayPath}
ExtJson(doc, name, files) ==
    [t |-> "json", doc |-> doc, exportedOf |-> name, exported |-> files]

\* f"Snapshot created at {timestamp.isoformat()}"
DefaultDescription(now) == "Snapshot created at " \o ToString(now)

NoTree == <<>>

\* the part of the tree outside the manager's own documents
UserTree(f) == [p \in UserPaths |-> f[p]]

\* the trees built from the inputs W: every entry's parent is a directory,
\* and the reserved directory exists and is empty
InitTrees(W) ==
    LET Whole(u) == [p \in AllPaths |->
                        IF p \in UserPaths THEN u[p]
                        ELSE IF p = SnapshotDir THEN Dir ELSE Absent]
    IN  {Whole(u) : u \in
            {u \in [UserPaths -> {Absent, Dir} \cup {File(w[2]) : w \in W}] :
                \A p \in UserPaths :
                    /\ u[p].t = "dir" => \E w \in W : Dirname(w[1]) = p
                    /\ u[p].t = "file" => <<p, u[p].bytes>> \in W
                    /\ u[p].t # "absent" => IsDir(Whole(u), Dirname(p))}}

\* the last call: name is the snapshot it is about (what import_snapshot
\* returns), arg the new_name given to import_snapshot
Call(op, name, path, result, faults, ok, removed, existed) ==
    [op |-> op, name |-> name, path |-> path, result |-> result, faults |-> faults,
     ok |-> ok, removed |-> removed, existed |-> existed, arg |-> ""]

-----------------------------------------------------------------------------
(* tools.py: the filesystem cache and the manager attached to a filesystem *)

\* the provider types a call asks for (VIRTUAL_FS_PROVIDER, default "s3")
Providers == {"s3", "memory"}

\* build_cache_key, for the bucket, prefix and endpoint of the environment
BuildCacheKey(prov) ==
    IF prov = "s3" THEN "s3:bucket:prefix:endpoint"
    ELSE IF prov = "memory" THEN "memory" ELSE prov

CacheKeys == {BuildCacheKey(prov) : prov \in Providers}

\* the filesystem instances VirtualFileSystem(...) returned so far, by number
Instances == 1..MaxInstances

\* the paths the tools write
ToolPaths == {PathA}

\* the snapshot names the tools are called with
ToolNames == {"s1"}

\* no entry of SimpleSnapshotManager._snapshots under a name
NoSnap == [has |-> FALSE, files |-> {}]

\* what a tool call answers: the provider asked for, the providers whose
\* construction raised, the filesystem and manager it got, the outcome of
\* get_virtual_fs and of the tool, and the names list_snapshots returned
ToolRet(op, prov, fails, inst, fsResult, mgr, result, names) ==
    [op |-> op, prov |-> prov, fails |-> fails, inst |-> inst, fsResult |-> fsResult,
     mgr |-> mgr, result |-> result, names |-> names]

\* _fs_cache = {} and nothing constructed yet
ToolsInit ==
    [cache |-> [k \in CacheKeys |-> 0],
     made |-> 0,
     kind |-> [i \in Instances |-> "none"],
     files |-> [i \in Instances |-> {}],
     bucket |-> {},
     mgr |-> [i \in Instances |-> 0],
     mgrs |-> 0,
     snaps |-> [m \in Instances |-> [n \in ToolNames |-> NoSnap]],
     lastFor |-> [prov \in Providers |-> 0],
     ret |-> ToolRet("init", "", {}, 0, "", 0, "", {})]

\* VirtualFileSystem(kind, ...) succeeded: _fs_cache[key] = fs; return fs
VirtualFileSystem(t, kind, key) ==
    LET i == t.made + 1
    IN  [t |-> [t EXCEPT !.made = i, !.cache[key] = i],
         inst |-> i, kind |-> kind, result |-> "returned"]

\* the fallback that constructs a memory filesystem on every call
FallbackUncached(t, fails) ==
    IF "memory" \notin fails
    THEN VirtualFileSystem(t, "memory", BuildCacheKey("memory"))
    ELSE [t |-> t, inst |-> 0, kind |-> "none", result |-> "ValueError"]

\* the except branch of get_virtual_fs for "s3": the cached memory
\* filesystem, else a new one, else ValueError
Fallback(t, fails) ==
    LET key == BuildCacheKey("memory")
    IN  IF t.cache[key] # 0
        THEN [t |-> t, inst |-> t.cache[key], kind |-> "none", result |-> "returned"]
        ELSE IF "memory" \notin fails
             THEN VirtualFileSystem(t, "memory", key)
             ELSE [t |-> t, inst |-> 0, kind |-> "none", result |-> "ValueError"]

\* get_virtual_fs(prov) when the construction of the providers of fails raises
GetVirtualFs(t, prov, fails) ==
    LET key == BuildCacheKey(prov)
    IN  IF t.cache[key] # 0
        THEN [t |-> t, inst |-> t.cache[key], kind |-> "none", result |-> "returned"]
        ELSE IF prov \notin fails THEN VirtualFileSystem(t, prov, key)
        ELSE IF prov = "s3" THEN Fallback(t, fails)
        ELSE [t |-> t, inst |-> 0, kind |-> "none", result |-> "ValueError"]

\* the providers whose construction get_virtual_fs(prov) attempts
Attempted(t, prov, fails) ==
    IF t.cache[BuildCacheKey(prov)] # 0 THEN {}
    ELSE IF prov = "s3" /\ "s3" \in fails /\ t.cache[BuildCacheKey("memory")] = 0
         THEN {"s3", "memory"}
         ELSE {prov}

\* the state after get_virtual_fs: a new instance has its kind and no file
AfterGet(g) ==
    IF g.kind = "none" THEN g.t
    ELSE [g.t EXCEPT !.kind[g.inst] = g.kind, !.files[g.inst] = {}]

\* get_snapshot_manager that constructs a manager on every call
GetSnapshotManagerFresh(t, i) ==
    LET m == t.mgrs + 1
    IN  [t |-> [t EXCEPT !.mgrs = m, !.mgr[i] = m, !.snaps[m] = [n \in ToolNames |-> NoSnap]],
         mgr |-> m]

\* get_snapshot_manager(fs): fs._snapshot_manager when fs has one, else a
\* new manager that is attached to fs
GetSnapshotManager(t, i) ==
    IF t.mgr[i] # 0 THEN [t |-> t, mgr |-> t.mgr[i]]
    ELSE LET m == t.mgrs + 1
         IN  [t |-> [t EXCEPT !.mgrs = m, !.mgr[i] = m, !.snaps[m] = [n \in ToolNames |-> NoSnap]],
              mgr |-> m]

\* the files of a filesystem instance: the bucket for s3, its own for memory
Visible(t, i) == IF t.kind[i] = "s3" THEN t.bucket ELSE t.files[i]

\* the instance with these files
WithFiles(t, i, files) ==
    IF t.kind[i] = "s3" THEN [t EXCEPT !.bucket = files] ELSE [t EXCEPT !.files[i] = files]

\* the threads that call create_snapshot, and none of them in a call
Threads == {1, 2}

NoCalls == [t \in Threads |-> [pc |-> "idle"]]

NoMem == [on |-> FALSE]

\* the state after SimpleSnapshotManager(fs) on a tree without snapshots
InitBase(C, W) ==
    /\ caps \in C
    /\ fs \in InitTrees(W)
    /\ ext = [p \in ExtPaths \cup OtherExtPaths |->
                CASE p = ForeignPath -> ExtJson(ForeignDoc, "", EmptyFiles)
                  [] p = NoNamePath -> ExtJson(NoNameDoc, "", EmptyFiles)
                  [] p = TextPath -> ExtText
                  [] p = ArrayPath -> ExtArray
                  [] OTHER -> ExtMissing]
    /\ clock = 0
    /\ snapshots = <<>>
    /\ snapshot_data = <<>>
    /\ last = Call("init", "", "", "", {}, TRUE, FALSE, FALSE)
    /\ treeAt = [n \in Names |-> NoTree]
    /\ pristine = TRUE
    /\ tools = ToolsInit
    /\ inflight = NoCalls

\* no second filesystem
InitOver(C, W) == InitBase(C, W) /\ mem = NoMem

-----------------------------------------------------------------------------
(* Direct use of the filesystem by its other callers *)

FsWriteFile(p, bytes) ==
    LET r == WriteNode(fs, p, File(bytes))
    IN  /\ r.ok /\ r.fs # fs
        /\ fs' = r.fs
        /\ pristine' = (pristine /\ ~Reserved(p))
        /\ last' = Call("mutate", "", "", "", {}, TRUE, FALSE, FALSE)
        /\ UNCHANGED <<inflight, mem, tools, caps, ext, clock, snapshots, snapshot_data, treeAt>>

\* write_file(p, json.dumps(doc)) by another caller of the filesystem
FsWriteJson(p, doc) ==
    LET r == WriteNode(fs, p, JsonFile(doc))
    IN  /\ r.ok /\ r.fs # fs
        /\ fs' = r.fs
        /\ pristine' = (pristine /\ ~Reserved(p))
        /\ last' = Call("mutate", "", "", "", {}, TRUE, FALSE, FALSE)
        /\ UNCHANGED <<inflight, mem, tools, caps, ext, clock, snapshots, snapshot_data, treeAt>>

FsRm(p) ==
    LET r == Rm(fs, p)
    IN  /\ r.ok
        /\ fs' = r.fs
        /\ last' = Call("mutate", "", "", "", {}, TRUE, FALSE, FALSE)
        /\ UNCHANGED <<inflight, mem, tools, caps, ext, clock, snapshots, snapshot_data, treeAt, pristine>>

FsMkdir(p) ==
    LET r == Mkdir(fs, p, FALSE)
    IN  /\ r.ok /\ r.fs # fs
        /\ fs' = r.fs
        /\ last' = Call("mutate", "", "", "", {}, TRUE, FALSE, FALSE)
        /\ UNCHANGED <<inflight, mem, tools, caps, ext, clock, snapshots, snapshot_data, treeAt, pristine>>

FsRmdir(p) ==
    LET r == Rmdir(fs, p)
    IN  /\ r.ok
        /\ fs' = r.fs
        /\ pristine' = (pristine /\ ~Reserved(p))
        /\ last' = Call("mutate", "", "", "", {}, TRUE, FALSE, FALSE)
        /\ UNCHANGED <<inflight, mem, tools, caps, ext, clock, snapshots, snapshot_data, treeAt>>

-----------------------------------------------------------------------------
(* SimpleSnapshotManager: operations *)

\* the sets of paths on which an operation is made to raise
FaultSets(candidates) == {b \in SUBSET candidates : Cardinality(b) <= MaxFaults}

\* create_snapshot that lets the exception of a failed save out: the call
\* raises and holds nothing under the name
CreateSnapshotStrict(name, description, bad, saveFault) ==
    LET payload == CapturePayload(caps, fs, bad)
        meta == Meta(name,
                     IF description # "" THEN description ELSE DefaultDescription(clock),
                     DateTime(clock))
        snaps == DictSet(snapshots, name, meta)
        data == DataSet(snapshot_data, name, payload)
        saved == SaveSnapshot(fs, snaps, data, name, saveFault)
    IN  /\ clock < MaxClock
        /\ bad \in FaultSets({p \in Enumerate(caps, fs) : ~IsDir(fs, p)} \cup {EnumCall})
        /\ saveFault = "mkdir" => ~Exists(fs, SnapshotDir)
        /\ snapshots' = IF saved.ok THEN snaps ELSE snapshots
        /\ snapshot_data' = IF saved.ok THEN data ELSE snapshot_data
        /\ fs' = saved.fs
        /\ clock' = clock + 1
        /\ treeAt' = [treeAt EXCEPT ![name] = IF bad = {} /\ saved.ok THEN UserTree(fs)
                                              ELSE NoTree]
        /\ pristine' = (pristine /\ saved.ok)
        /\ last' = Call("create", name, "", IF saved.ok THEN "returned" ELSE "Exception",
                        bad, saved.ok, FALSE, name \in DictKeys(snapshots))
        /\ UNCHANGED <<inflight, mem, tools, caps, ext>>

\* create_snapshot(name, description); the reads of the paths in bad raise,
\* find raises when EnumCall is in bad, and saveFault is the call of
\* _save_snapshot that raises
CreateSnapshot(name, description, bad, saveFault) ==
    LET payload == CapturePayload(caps, fs, bad)
        meta == Meta(name,
                     IF description # "" THEN description ELSE DefaultDescription(clock),
                     DateTime(clock))
        snaps == DictSet(snapshots, name, meta)
        data == DataSet(snapshot_data, name, payload)
        saved == SaveSnapshot(fs, snaps, data, name, saveFault)
    IN  /\ clock < MaxClock
        /\ bad \in FaultSets({p \in Enumerate(caps, fs) : ~IsDir(fs, p)} \cup {EnumCall})
        /\ saveFault = "mkdir" => ~Exists(fs, SnapshotDir)
        /\ snapshots' = snaps
        /\ snapshot_data' = data
        /\ fs' = saved.fs
        /\ clock' = clock + 1
        /\ treeAt' = [treeAt EXCEPT ![name] = IF bad = {} THEN UserTree(fs) ELSE NoTree]
        /\ pristine' = (pristine /\ saved.ok)
        /\ last' = Call("create", name, "", "returned", bad, saved.ok, FALSE,
                        name \in DictKeys(snapshots))
        /\ UNCHANGED <<inflight, mem, tools, caps, ext>>

\* the paths restore_snapshot(name) operates on
RestoreTouches(name) ==
    LET payload == snapshot_data[name]
    IN  {p \in Enumerate(caps, fs) \ DOMAIN payload : ~IsDir(fs, p)}
        \cup DOMAIN payload
        \cup ({Dirname(p) : p \in DOMAIN payload} \ {Root, <<>>})

\* restore_snapshot without the check that the name is known: an unknown name
\* is restored as a snapshot without files
RestoreSnapshotUnchecked(name, bad) ==
    LET payload == IF name \in DOMAIN snapshot_data THEN snapshot_data[name]
                   ELSE EmptyFiles
        r == RestoreFs(caps, fs, payload, bad)
    IN  /\ bad = {}
        /\ fs' = r.fs
        /\ pristine' = FALSE
        /\ last' = Call("restore", name, "", "returned", bad, r.ok, r.removed # {}, TRUE)
        /\ UNCHANGED <<inflight, mem, tools, caps, ext, clock, snapshots, snapshot_data, treeAt>>

\* restore_snapshot(name); rm, mkdir and write_file raise on the paths in bad
RestoreSnapshot(name, bad) ==
    IF name \notin DictKeys(snapshots)
    THEN /\ bad = {}
         /\ last' = Call("restore", name, "", "ValueError", {}, FALSE, FALSE, FALSE)
         /\ UNCHANGED <<inflight, mem, tools, caps, fs, ext, clock, snapshots, snapshot_data, treeAt,
                        pristine>>
    ELSE LET r == RestoreFs(caps, fs, snapshot_data[name], bad)
         IN  /\ bad \in FaultSets(RestoreTouches(name))
             /\ fs' = r.fs
             /\ pristine' = (pristine /\ \A p \in DOMAIN snapshot_data[name] : ~Reserved(p))
             /\ last' = Call("restore", name, "", "returned", bad, r.ok,
                             r.removed # {}, TRUE)
             /\ UNCHANGED <<inflight, mem, tools, caps, ext, clock, snapshots, snapshot_data, treeAt>>

\* the export_snapshot tool: what it reports for an outcome of the manager's
\* export_snapshot, whose return value it does not look at
ExportToolResult(call) ==
    IF call.result = "returned" THEN "exported successfully" ELSE "ValueError"

\* list_snapshots(): list(self._snapshots.values())
ListResult == snapshots

ListSnapshots ==
    /\ last' = Call("list", "", "", "returned", {}, TRUE, FALSE, FALSE)
    /\ UNCHANGED <<inflight, mem, tools, caps, fs, ext, clock, snapshots, snapshot_data, treeAt, pristine>>

\* export_snapshot whose export_data is the index entry itself: created
\* becomes its ISO string in the index
ExportSnapshotInPlace(name, path, openFails) ==
    IF name \notin DictKeys(snapshots)
    THEN /\ ~openFails
         /\ last' = Call("export", name, path, "ValueError", {}, FALSE, FALSE, FALSE)
         /\ UNCHANGED <<inflight, mem, tools, caps, fs, ext, clock, snapshots, snapshot_data, treeAt,
                        pristine>>
    ELSE LET m == DictGet(snapshots, name)
         IN  /\ ext' = IF openFails THEN ext
                       ELSE [ext EXCEPT ![path] =
                                ExtJson(ExportData(snapshots, snapshot_data, name),
                                        name, snapshot_data[name])]
             /\ snapshots' = DictSet(snapshots, name,
                                     Meta(m.name, m.description,
                                          IF IsDateTime(m.created) THEN IsoFormat(m.created)
                                          ELSE m.created))
             /\ last' = Call("export", name, path, "returned",
                             IF openFails THEN {<<path>>} ELSE {}, ~openFails, FALSE, TRUE)
             /\ UNCHANGED <<inflight, mem, tools, caps, fs, clock, snapshot_data, treeAt, pristine>>

\* export_snapshot that opens the file for writing before it looks the name
\* up: the file of an unknown name is created, or truncated
ExportSnapshotOpenFirst(name, path, openFails) ==
    IF name \notin DictKeys(snapshots)
    THEN /\ ~openFails
         /\ ext' = [ext EXCEPT ![path] = ExtText]
         /\ last' = Call("export", name, path, "ValueError", {}, FALSE, FALSE, FALSE)
         /\ UNCHANGED <<inflight, mem, tools, caps, fs, clock, snapshots, snapshot_data, treeAt, pristine>>
    ELSE /\ ext' = IF openFails THEN ext
                   ELSE [ext EXCEPT ![path] =
                            ExtJson(ExportData(snapshots, snapshot_data, name),
                                    name, snapshot_data[name])]
         /\ last' = Call("export", name, path, "returned", IF openFails THEN {<<path>>} ELSE {},
                         ~openFails, FALSE, TRUE)
         /\ UNCHANGED <<inflight, mem, tools, caps, fs, clock, snapshots, snapshot_data, treeAt, pristine>>

\* export_snapshot(name, path); open(path, "w") raises when openFails
ExportSnapshot(name, path, openFails) ==
    IF name \notin DictKeys(snapshots)
    THEN /\ ~openFails
         /\ last' = Call("export", name, path, "ValueError", {}, FALSE, FALSE, FALSE)
         /\ UNCHANGED <<inflight, mem, tools, caps, fs, ext, clock, snapshots, snapshot_data, treeAt,
                        pristine>>
    ELSE /\ ext' = IF openFails THEN ext
                   ELSE [ext EXCEPT ![path] =
                            ExtJson(ExportData(snapshots, snapshot_data, name),
                                    name, snapshot_data[name])]
         /\ last' = Call("export", name, path, "returned", IF openFails THEN {<<path>>} ELSE {},
                         ~openFails, FALSE, TRUE)
         /\ UNCHANGED <<inflight, mem, tools, caps, fs, clock, snapshots, snapshot_data, treeAt, pristine>>

\* import_snapshot that prefers the name in the document to new_name
ImportSnapshotEmbeddedFirst(path, new_name, saveFault) ==
    IF ext[path].t # "json"
    THEN /\ saveFault = "none"
         /\ last' = Call("import", new_name, path,
                         IF ext[path].t = "array" THEN "AttributeError" ELSE "ValueError",
                         {}, FALSE, FALSE, FALSE)
         /\ UNCHANGED <<inflight, mem, tools, caps, fs, ext, clock, snapshots, snapshot_data, treeAt,
                        pristine>>
    ELSE LET doc == ext[path].doc
             name == IF "name" \in doc.has THEN doc.name
                     ELSE IF new_name # "" THEN new_name ELSE ImportedName(clock)
             description == DocGet(doc, "description", "Imported snapshot")
             given == DocGet(doc, "created", IsoFormat(DateTime(clock)))
             created == IF IsStr(given)
                        THEN (IF FromIsoRaises(given) THEN DateTime(clock)
                              ELSE FromIsoFormat(given))
                        ELSE given
             snaps == DictSet(snapshots, name, Meta(name, description, created))
             data == DataSet(snapshot_data, name, DocGet(doc, "files", EmptyFiles))
             saved == SaveSnapshot(fs, snaps, data, name, saveFault)
         IN  /\ clock < MaxClock
             /\ saveFault = "mkdir" => ~Exists(fs, SnapshotDir)
             /\ snapshots' = snaps
             /\ snapshot_data' = data
             /\ fs' = saved.fs
             /\ clock' = clock + 1
             /\ treeAt' = [n \in Names |-> IF n = name THEN NoTree ELSE treeAt[n]]
             /\ pristine' = (pristine /\ saved.ok)
             /\ last' = [Call("import", name, path, "returned", {}, saved.ok, FALSE,
                              name \in DictKeys(snapshots)) EXCEPT !.arg = new_name]
             /\ UNCHANGED <<inflight, mem, tools, caps, ext>>

\* import_snapshot(path, new_name); new_name "" is None. open or json.load
\* raising gives ValueError; a JSON list has no get: AttributeError
ImportSnapshot(path, new_name, saveFault) ==
    IF ext[path].t # "json"
    THEN /\ saveFault = "none"
         /\ last' = Call("import", new_name, path,
                         IF ext[path].t = "array" THEN "AttributeError" ELSE "ValueError",
                         {}, FALSE, FALSE, FALSE)
         /\ UNCHANGED <<inflight, mem, tools, caps, fs, ext, clock, snapshots, snapshot_data, treeAt,
                        pristine>>
    ELSE LET doc == ext[path].doc
             name == IF new_name # "" THEN new_name
                     ELSE DocGet(doc, "name", ImportedName(clock))
             description == DocGet(doc, "description", "Imported snapshot")
             given == DocGet(doc, "created", IsoFormat(DateTime(clock)))
             created == IF IsStr(given)
                        THEN (IF FromIsoRaises(given) THEN DateTime(clock)
                              ELSE FromIsoFormat(given))
                        ELSE given
             snaps == DictSet(snapshots, name, Meta(name, description, created))
             data == DataSet(snapshot_data, name, DocGet(doc, "files", EmptyFiles))
             saved == SaveSnapshot(fs, snaps, data, name, saveFault)
         IN  /\ clock < MaxClock
             /\ saveFault = "mkdir" => ~Exists(fs, SnapshotDir)
             /\ snapshots' = snaps
             /\ snapshot_data' = data
             /\ fs' = saved.fs
             /\ clock' = clock + 1
             /\ treeAt' = [n \in Names |-> IF n = name THEN NoTree ELSE treeAt[n]]
             /\ pristine' = (pristine /\ saved.ok)
             /\ last' = [Call("import", name, path, "returned", {}, saved.ok, FALSE,
                              name \in DictKeys(snapshots)) EXCEPT !.arg = new_name]
             /\ UNCHANGED <<inflight, mem, tools, caps, ext>>

\* SimpleSnapshotManager(fs) again over the same filesystem: a process restart
RestartWith(bad) ==
    LET made == Construct(fs, clock, bad)
    IN  /\ fs' = made.fs
        /\ snapshots' = made.snapshots
        /\ snapshot_data' = made.data
        /\ treeAt' = [n \in Names |->
                        IF /\ n \in DOMAIN made.data /\ n \in DOMAIN snapshot_data
                           /\ made.data[n] = snapshot_data[n]
                        THEN treeAt[n] ELSE NoTree]
        /\ last' = Call("restart", "", "", "returned", bad, TRUE, FALSE, FALSE)
        /\ UNCHANGED <<inflight, mem, tools, caps, ext, clock, pristine>>

\* the restart during which no call of the filesystem raises
Restart == RestartWith({})

\* a filesystem with find, whose write_file takes encoding= or rejects it
Init == InitOver([hasFind : {TRUE}, wfEncoding : BOOLEAN, hasNodeInfo : {TRUE}], WriteInputs)

\* a filesystem on which only the constructor has acted
FreshTree == [p \in AllPaths |-> IF p = SnapshotDir THEN Dir ELSE Absent]

\* a manager constructed over another, fresh filesystem instance, which holds
\* no snapshots; the files outside the managed filesystem stay
NewInstance ==
    /\ fs # FreshTree
    /\ fs' = FreshTree
    /\ snapshots' = <<>>
    /\ snapshot_data' = <<>>
    /\ treeAt' = [n \in Names |-> NoTree]
    /\ pristine' = TRUE
    /\ last' = Call("new", "", "", "returned", {}, TRUE, FALSE, FALSE)
    /\ UNCHANGED <<inflight, mem, tools, caps, ext, clock>>

Next ==
    \/ \E w \in WriteInputs : FsWriteFile(w[1], w[2])
    \/ FsRm(PathA)
    \/ \E in \in CreateInputs : CreateSnapshot(in[1], in[2], {}, "none")
    \/ \E n \in Names : RestoreSnapshot(n, {})
    \/ ListSnapshots
    \/ \E n \in Names : ExportSnapshot(n, ExportPath, FALSE)
    \/ \E p \in ExtPaths, n \in ImportNames : ImportSnapshot(p, n, "none")
    \/ Restart
    \/ NewInstance

Spec == Init /\ [][Next]_vars

\* a filesystem with or without find, over trees with a directory
InitTree == InitOver([hasFind : BOOLEAN, wfEncoding : {TRUE}, hasNodeInfo : BOOLEAN], TreeInputs)

NextTree ==
    \/ \E w \in TreeInputs : FsWriteFile(w[1], w[2])
    \/ \E w \in TreeInputs : FsRm(w[1])
    \/ FsMkdir(PathD)
    \/ FsRmdir(PathD)
    \/ \E in \in CreateInputs : CreateSnapshot(in[1], in[2], {}, "none")
    \/ \E n \in Names : RestoreSnapshot(n, {})
    \/ ListSnapshots
    \/ Restart

SpecTree == InitTree /\ [][NextTree]_vars

\* a filesystem with find whose operations can raise, and one snapshot name
InitFault == InitOver([hasFind : {TRUE}, wfEncoding : {TRUE}, hasNodeInfo : {TRUE}], FaultInputs)

NextFault ==
    \/ \E w \in FaultInputs : FsWriteFile(w[1], w[2])
    \/ \E w \in FaultInputs : FsRm(w[1])
    \/ FsMkdir(PathD)
    \/ \E p \in {PathD, SnapshotDir} : FsRmdir(p)
    \/ \E bad \in FaultSets(FaultPaths), sf \in SaveFaults :
            CreateSnapshot("s1", "", bad, sf)
    \/ \E bad \in FaultSets(FaultPaths) : RestoreSnapshot("s1", bad)
    \/ ListSnapshots

SpecFault == InitFault /\ [][NextFault]_vars

\* one text file, external files of every kind, and saves and exports that
\* can raise
ExtInputs == { <<PathA, Utf8Encode(TextPlain)>> }

InitExt == InitOver([hasFind : {TRUE}, wfEncoding : {TRUE}, hasNodeInfo : {TRUE}], ExtInputs)

NextExt ==
    \/ \E w \in ExtInputs : FsWriteFile(w[1], w[2])
    \/ FsRm(PathA)
    \/ FsRmdir(SnapshotDir)
    \/ \E in \in CreateInputs : CreateSnapshot(in[1], in[2], {}, "none")
    \/ \E n \in Names : RestoreSnapshot(n, {})
    \/ ListSnapshots
    \/ \E n \in Names, openFails \in BOOLEAN : ExportSnapshot(n, ExportPath, openFails)
    \/ \E p \in ExtPaths \cup OtherExtPaths, n \in ImportNames, sf \in SaveFaults :
            ImportSnapshot(p, n, sf)

SpecExt == InitExt /\ [][NextExt]_vars

-----------------------------------------------------------------------------
(* Properties *)

\* the last call was restore_snapshot of a known name, and it returned
Restored == last.op = "restore" /\ last.result = "returned"

\* the tree at the capture of the snapshot the last call names is on record
Captured == treeAt[last.name] # NoTree

\* C1: restoring a snapshot leaves the tree it was captured from, whatever
\* was created, changed or deleted in between, a file replaced by a directory
\* of the same path included: at and beneath /d, on a filesystem with find,
\* the files and their content after the restore are those at the capture.
C1_CaptureRestoreIdempotence ==
    (Restored /\ Captured /\ caps.hasFind) =>
        \A p \in {PathD, PathDX} :
            LET was == treeAt[last.name][p]
            IN  /\ IsFileNode(was) => fs[p] = was
                /\ ~IsFileNode(was) => ~IsFileNode(fs[p])

\* C2: after a restore on a filesystem with find on which no operation
\* failed, every payload path holds the payload's content, and no file
\* outside the reserved directory and outside the payload exists.
C2_RestoreLeavesPayload ==
    (Restored /\ caps.hasFind /\ last.ok) =>
        LET payload == snapshot_data[last.name]
        IN  /\ \A p \in DOMAIN payload : fs[p] = File(Utf8Encode(payload[p]))
            /\ \A p \in AllPaths \ DOMAIN payload :
                    ~Reserved(p) => ~IsFileNode(fs[p])

\* C3: restore_snapshot of a name that is not in the index raises ValueError
\* and changes nothing: not the tree, not the index, not the payloads.
C3_Step ==
    (last'.op = "restore" /\ last'.name \notin DictKeys(snapshots)) =>
        /\ last'.result = "ValueError"
        /\ fs' = fs
        /\ snapshots' = snapshots
        /\ snapshot_data' = snapshot_data
        /\ ext' = ext

C3_RestoreUnknownRaises == [][C3_Step]_vars

C3_Witness ==
    /\ last.op = "restore" /\ last.result = "ValueError"
    /\ last.name = "s2"
    /\ DictKeys(snapshots) = {"s1"}
    /\ IsFileNode(fs[PathA])

\* C4: in every reachable state no snapshot's payload has a key equal to or
\* beneath the reserved directory.
C4_PayloadExcludesReserved ==
    \A n \in DOMAIN snapshot_data :
        \A p \in DOMAIN snapshot_data[n] : ~Reserved(p)

\* C5: a restore removes nothing equal to or beneath the reserved directory:
\* every document, those of snapshots created after the restored one
\* included, is still there afterwards.
C5_Step ==
    (last'.op = "restore") =>
        \A p \in AllPaths : (Reserved(p) /\ Exists(fs, p)) => Exists(fs', p)

C5_RestoreKeepsReserved == [][C5_Step]_vars

C5_Witness ==
    /\ Restored /\ last.removed
    /\ last.name = "s1"
    /\ DictKeys(snapshots) = {"s1", "s2"}
    /\ DictGet(snapshots, "s1").created.t < DictGet(snapshots, "s2").created.t
    /\ Exists(fs, SnapshotPath("s1")) /\ Exists(fs, SnapshotPath("s2"))

\* the bytes a stored string stands for: its UTF-8 encoding, or, for bytes
\* that are no UTF-8, what its base64 decodes to
StoredFor(text, bytes) ==
    IF Utf8Valid(bytes) THEN Utf8Encode(text) = bytes
    ELSE B64Ok(text) /\ B64Decode(text) = bytes

\* C6: create_snapshot of a name that is already in the index replaces the
\* snapshot: the payload is the capture of the tree at this call (nothing of
\* the earlier capture survives unless the tree still has it), the metadata
\* is that of this call, and the list has exactly one entry of that name.
C6_Step ==
    (last'.op = "create" /\ last'.existed) =>
        LET n == last'.name
            payload == snapshot_data'[n]
        IN  /\ Cardinality({i \in DOMAIN snapshots' : snapshots'[i].name = n}) = 1
            /\ \A i \in DOMAIN snapshots' :
                    snapshots'[i].name = n =>
                        \E in \in CreateInputs :
                            /\ in[1] = n
                            /\ snapshots'[i] =
                                Meta(n, IF in[2] # "" THEN in[2]
                                        ELSE DefaultDescription(clock),
                                     DateTime(clock))
            /\ \A p \in DOMAIN payload :
                    IsFileNode(fs[p]) /\ StoredFor(payload[p], fs[p].bytes)
            /\ \A p \in {PathA, PathD, PathDX} :
                    IsFileNode(fs[p]) => p \in DOMAIN payload

C6_CreateOverwrites == [][C6_Step]_vars

C6_Witness ==
    /\ last.op = "create" /\ last.existed
    /\ ext[ExportPath].exportedOf = last.name
    /\ ext[ExportPath].exported # EmptyFiles
    /\ ext[ExportPath].exported # snapshot_data[last.name]

\* C7: a file whose bytes are no UTF-8 is back byte for byte after capture
\* and restore, when no operation of the restore failed.
C7_BinaryRoundTrip ==
    (Restored /\ Captured /\ last.ok) =>
        \A p \in UserPaths :
            LET was == treeAt[last.name][p]
            IN  (IsFileNode(was) /\ ~Utf8Valid(was.bytes)) => fs[p] = was

\* C8: whether a stored string is text or base64 is not guessed from how it
\* looks: a text file is back unchanged after capture and restore, also when
\* its text starts with b' and ends with ' and write_file takes no encoding=.
C8_TextRoundTrip ==
    (Restored /\ Captured /\ last.ok) =>
        \A p \in UserPaths :
            LET was == treeAt[last.name][p]
            IN  (IsFileNode(was) /\ Utf8Valid(was.bytes)) => fs[p] = was

\* C9: while every save has succeeded, a manager constructed over the same
\* filesystem lists the same names with the same description and created,
\* and holds the same payloads.
C9_SnapshotsSurviveRestart ==
    pristine =>
        LET loaded == LoadSnapshots(fs, clock)
        IN  /\ DictKeys(loaded.snapshots) = DictKeys(snapshots)
            /\ DOMAIN loaded.data = DOMAIN snapshot_data
            /\ \A n \in DictKeys(snapshots) :
                /\ DictGet(loaded.snapshots, n) = DictGet(snapshots, n)
                /\ loaded.data[n] = snapshot_data[n]

C9_Witness ==
    /\ pristine
    /\ last.op = "restart"
    /\ DictKeys(snapshots) = {"s1", "s2"}
    /\ snapshot_data["s1"] # EmptyFiles
    /\ DictGet(snapshots, "s2").description # "desc"

\* C10: import_snapshot of a file written by export_snapshot(s) gives a
\* snapshot whose payload is that of s at the export, in this manager or in
\* one over another filesystem, and restoring it leaves the tree that
\* restoring that payload leaves.
C10_ExportImportRoundTrip ==
    (last.op = "import" /\ last.result = "returned"
        /\ ext[last.path].exportedOf # "") =>
        LET c == last.name
            e == ext[last.path]
        IN  /\ c \in DictKeys(snapshots)
            /\ c \in DOMAIN snapshot_data
            /\ snapshot_data[c] = e.exported
            /\ RestoreFs(caps, fs, snapshot_data[c], {}).fs
                    = RestoreFs(caps, fs, e.exported, {}).fs
            /\ (e.exportedOf \in DOMAIN snapshot_data
                    /\ snapshot_data[e.exportedOf] = e.exported) =>
                RestoreFs(caps, fs, snapshot_data[c], {}).fs
                    = RestoreFs(caps, fs, snapshot_data[e.exportedOf], {}).fs

C10_Witness ==
    /\ last.op = "import" /\ last.result = "returned"
    /\ ext[last.path].exportedOf = "s1"
    /\ ext[last.path].exported # EmptyFiles
    /\ last.name = "s2"
    /\ ~Exists(fs, SnapshotPath("s1"))

\* the files of the tree outside the reserved directory
UserFiles(f) == {p \in UserPaths : IsFileNode(f[p])}

\* those of them whose path does not start with the reserved directory's name
OrdinaryFiles(f) == UserFiles(f) \ {PathSibling}

\* what a manager constructed now would load from the filesystem
Persisted == LoadSnapshots(fs, clock)

\* C11: a save that fails does not fail the capture: create_snapshot returns,
\* the index holds the name with the payload just captured, and a later
\* restore in the same process restores that payload, which the filesystem
\* does not hold.
C11_SaveFailureKeepsCapture ==
    /\ (last.op = "create" /\ ~last.ok) =>
        /\ last.result = "returned"
        /\ last.name \in DictKeys(snapshots)
        /\ last.name \in DOMAIN snapshot_data
        /\ DictGet(snapshots, last.name).created = DateTime(clock - 1)
        /\ last.faults = {} =>
            /\ OrdinaryFiles(fs) \subseteq DOMAIN snapshot_data[last.name]
            /\ DOMAIN snapshot_data[last.name] \subseteq UserFiles(fs)
            /\ \A p \in DOMAIN snapshot_data[last.name] :
                    StoredFor(snapshot_data[last.name][p], fs[p].bytes)
    /\ (Restored /\ last.faults = {}
            /\ (last.name \notin DOMAIN Persisted.data
                \/ Persisted.data[last.name] # snapshot_data[last.name])) =>
        /\ OrdinaryFiles(fs) = DOMAIN snapshot_data[last.name] \ {PathSibling}
        /\ \A p \in DOMAIN snapshot_data[last.name] :
                fs[p] = File(Utf8Encode(snapshot_data[last.name][p]))

C11_Witness ==
    /\ Restored /\ last.faults = {} /\ last.removed
    /\ ~pristine
    /\ Exists(fs, SnapshotDir) /\ ~Exists(fs, SnapshotPath("s1"))
    /\ PathDX \in DOMAIN snapshot_data["s1"]

\* C12: a capture in which the read of some files raises returns, and its
\* payload holds exactly the other files of the tree, with their content;
\* the failing paths are not in it.
C12_CaptureSkipsUnreadable ==
    (last.op = "create" /\ last.faults # {} /\ EnumCall \notin last.faults) =>
        /\ last.result = "returned"
        /\ last.name \in DictKeys(snapshots)
        /\ DOMAIN snapshot_data[last.name] = UserFiles(fs) \ last.faults
        /\ \A p \in UserFiles(fs) \ last.faults :
                StoredFor(snapshot_data[last.name][p], fs[p].bytes)

\* C13: a restore in which rm, mkdir or write_file raises for some paths
\* returns, and every other path is in its target state: a payload path that
\* did not raise, and whose directory did not, holds the payload's content,
\* and a file outside the payload that did not raise is gone.
C13_RestoreBestEffort ==
    (Restored /\ last.faults # {}) =>
        LET payload == snapshot_data[last.name]
        IN  /\ \A p \in DOMAIN payload :
                    (p \notin last.faults /\ Dirname(p) \notin last.faults) =>
                        fs[p] = File(Utf8Encode(payload[p]))
            /\ \A p \in OrdinaryFiles(fs) :
                    p \in DOMAIN payload \/ p \in last.faults

C13_Witness ==
    /\ Restored /\ ~last.ok
    /\ last.faults = {PathA}
    /\ DOMAIN snapshot_data["s1"] = {PathDX}
    /\ IsFileNode(fs[PathA]) /\ IsFileNode(fs[PathDX])

\* C14: a snapshot does not change once stored: no write or deletion in the
\* tree, no restore of any snapshot, no export and no list call changes the
\* metadata or the payload held for a name.
C14_Step ==
    (last'.op \in {"mutate", "restore", "export", "list"}) =>
        /\ snapshots' = snapshots
        /\ snapshot_data' = snapshot_data

C14_SnapshotsImmutable == [][C14_Step]_vars

C14_Witness ==
    /\ Restored /\ last.removed
    /\ last.name = "s2"
    /\ DictKeys(snapshots) = {"s1", "s2"}
    /\ snapshot_data["s1"] # EmptyFiles
    /\ snapshot_data["s2"] = EmptyFiles
    /\ ext[ExportPath].exportedOf = "s1"

\* the name import_snapshot is to give: new_name when given, else the name in
\* the document, else imported_<time of the call>
NameToGive(new_name, doc, now) ==
    IF new_name # "" THEN new_name
    ELSE IF "name" \in doc.has THEN doc.name
    ELSE "imported_" \o ToString(now)

\* C15: import_snapshot returns the name it gives (new_name, else the
\* document's, else imported_<time>), holds exactly one entry of that name
\* with the document's files as payload, and has written the document of that
\* name unless the save failed, which does not fail the import.
C15_ImportNaming ==
    (last.op = "import" /\ last.result = "returned") =>
        LET doc == ext[last.path].doc
            name == NameToGive(last.arg, doc, clock - 1)
        IN  /\ last.name = name
            /\ Cardinality({i \in DOMAIN snapshots : snapshots[i].name = name}) = 1
            /\ name \in DOMAIN snapshot_data
            /\ snapshot_data[name] = (IF "files" \in doc.has THEN doc.files ELSE EmptyFiles)
            /\ DictGet(snapshots, name).description =
                    (IF "description" \in doc.has THEN doc.description
                     ELSE "Imported snapshot")
            /\ last.ok =>
                /\ NodeAt(fs, SnapshotPath(name)).t = "json"
                /\ NodeAt(fs, SnapshotPath(name)).doc.files = snapshot_data[name]
                /\ NodeAt(fs, SnapshotPath(name)).doc.name = name

C15_Witness ==
    /\ last.op = "import" /\ last.result = "returned"
    /\ last.arg = ""
    /\ last.name = "imported_1"
    /\ ~last.ok
    /\ DictKeys(snapshots) = {"s1", "imported_1"}

\* C16: import_snapshot of a file that is missing, is no JSON, or whose JSON
\* is no object raises ValueError and leaves the index, the payloads and the
\* filesystem as they were.
C16_Step ==
    (last'.op = "import" /\ ext[last'.path].t # "json") =>
        /\ last'.result = "ValueError"
        /\ snapshots' = snapshots
        /\ snapshot_data' = snapshot_data
        /\ fs' = fs

C16_ImportUnreadableRaises == [][C16_Step]_vars

\* C17: creating or importing a snapshot removes no earlier name from the
\* listing: after the call every name listed before is still listed, the new
\* name is listed, and no name is listed twice.
C17_Step ==
    (last'.op \in {"create", "import"} /\ last'.result = "returned") =>
        /\ DictKeys(snapshots) \subseteq DictKeys(snapshots')
        /\ last'.name \in DictKeys(snapshots')
        /\ Cardinality(DictKeys(snapshots')) = Len(snapshots')
        /\ ~last'.existed => Len(snapshots') = Len(snapshots) + 1

C17_ListKeepsNames == [][C17_Step]_vars

C17_Witness ==
    /\ last.op = "import" /\ last.result = "returned"
    /\ ~last.existed
    /\ last.name = "s2"
    /\ Len(ListResult) = 2
    /\ {ListResult[i].name : i \in DOMAIN ListResult} = {"s1", "s2"}

\* create_snapshot returns no snapshot without files when the enumeration of
\* the tree raised
C18_CreateNotMasked ==
    (last.op = "create" /\ EnumCall \in last.faults) =>
        ~(last.result = "returned" /\ last.name \in DOMAIN snapshot_data
            /\ snapshot_data[last.name] = EmptyFiles)

\* the export_snapshot tool reports no success when the manager's write of
\* the external file failed
C18_ExportNotMasked ==
    (last.op = "export" /\ last.result = "returned" /\ ~last.ok) =>
        ExportToolResult(last) # "exported successfully"

\* C18: no operation returns a success that masks an error: create_snapshot
\* gives no snapshot with an empty payload when find or ls raised, and the
\* export_snapshot tool reports no success when the write of the file failed.
C18_NoMaskedError == C18_CreateNotMasked /\ C18_ExportNotMasked

\* C19: what is held for a name comes from one capture: whenever the
\* metadata or the payload of a name differs from what was held before the
\* step, the step is a create_snapshot of that name and both are those of
\* this call, whether or not its save succeeded.
C19_Step ==
    \A n \in Names :
        (/\ n \in DictKeys(snapshots')
         /\ \/ n \notin DictKeys(snapshots)
            \/ DictGet(snapshots', n) # DictGet(snapshots, n)
            \/ snapshot_data'[n] # snapshot_data[n]) =>
            /\ last'.op = "create" /\ last'.name = n
            /\ DictGet(snapshots', n).created = DateTime(clock)
            /\ DictGet(snapshots', n).description = DefaultDescription(clock)
            /\ DOMAIN snapshot_data'[n] \subseteq UserFiles(fs) \ last'.faults
            /\ EnumCall \notin last'.faults =>
                    OrdinaryFiles(fs) \ last'.faults \subseteq DOMAIN snapshot_data'[n]
            /\ \A p \in DOMAIN snapshot_data'[n] :
                    StoredFor(snapshot_data'[n][p], fs[p].bytes)

C19_RecaptureAtomic == [][C19_Step]_vars

C19_Witness ==
    /\ last.op = "create" /\ last.existed /\ ~last.ok
    /\ last.faults = {}
    /\ "s1" \in DOMAIN Persisted.data
    /\ Persisted.data["s1"] # snapshot_data["s1"]
    /\ DictGet(Persisted.snapshots, "s1").created # DictGet(snapshots, "s1").created

\* C20: on a filesystem without find the tree is walked level by level:
\* create_snapshot captures the files at any depth, and the deletion pass of
\* restore_snapshot removes the files at any depth that the payload lacks.
C20_WalkerFallback ==
    /\ (last.op = "create" /\ ~caps.hasFind) =>
            \A p \in {PathD, PathDX} :
                IsFileNode(fs[p]) => p \in DOMAIN snapshot_data[last.name]
    /\ (Restored /\ ~caps.hasFind /\ last.ok) =>
            \A p \in {PathD, PathDX} :
                IsFileNode(fs[p]) => p \in DOMAIN snapshot_data[last.name]

-----------------------------------------------------------------------------
(* Construction over a reserved directory that other callers wrote into *)

\* a JSON number
NumVal == [k |-> "number", t |-> 0]

\* documents that no _save_snapshot wrote: created missing, not a date, not a
\* string; files missing
LooseDocs ==
    { [Doc("s1", "kept", NoneVal, EmptyFiles) EXCEPT !.has = {"name", "description", "files"}],
      Doc("s1", "kept", BadStr, EmptyFiles),
      Doc("s1", "kept", NumVal, EmptyFiles),
      [Doc("s1", "kept", IsoStr(0), EmptyFiles) EXCEPT !.has = {"name", "description", "created"}] }

\* file contents that json.loads rejects, and that read_file cannot decode
CorruptBytes == {Utf8Encode(TextPlain), BytesBinary}

\* the paths whose calls are made to raise while a manager is constructed
LoadFaultPaths == {SnapshotDir} \cup {SnapshotPath(n) : n \in Names}

InitLoad == InitOver([hasFind : {TRUE}, wfEncoding : {TRUE}, hasNodeInfo : {TRUE}], ExtInputs)

NextLoad ==
    \/ \E n \in Names, b \in CorruptBytes : FsWriteFile(SnapshotPath(n), b)
    \/ \E n \in Names, d \in LooseDocs : FsWriteJson(SnapshotPath(n), d)
    \/ FsRmdir(SnapshotDir)
    \/ \E in \in CreateInputs : CreateSnapshot(in[1], in[2], {}, "none")
    \/ \E bad \in FaultSets(LoadFaultPaths) : RestartWith(bad)

SpecLoad == InitLoad /\ [][NextLoad]_vars

\* the last call constructed a manager over the filesystem
Constructed == last.op = "restart"

\* the document of a name can be read and parsed when the calls of bad raise
DocReadable(f, n, bad) ==
    /\ NodeAt(f, SnapshotPath(n)).t = "json"
    /\ SnapshotPath(n) \notin bad

\* C21: constructing a manager never raises, whatever the reserved directory
\* holds and whichever call of the filesystem fails; a *.json entry that
\* cannot be read or parsed leaves no entry in _snapshots or _snapshot_data,
\* and every document that can be read and parsed is loaded with its
\* description and files
C21_Step ==
    last'.op = "restart" =>
        LET bad == last'.faults
            listed == SnapshotDir \notin bad /\ IsDir(fs', SnapshotDir)
        IN  /\ last'.result = "returned"
            /\ DictKeys(snapshots') = DOMAIN snapshot_data'
            /\ \A n \in DictKeys(snapshots') : DocReadable(fs, n, bad)
            /\ listed =>
                 \A n \in Names \cup GeneratedNames :
                    DocReadable(fs, n, bad) =>
                        /\ n \in DictKeys(snapshots')
                        /\ DictGet(snapshots', n).name = n
                        /\ DictGet(snapshots', n).description =
                               DocGet(fs[SnapshotPath(n)].doc, "description", "")
                        /\ snapshot_data'[n] = LoadedFiles(fs[SnapshotPath(n)].doc)
C21_LoadToleratesCorrupt == [][C21_Step]_vars

\* a manager was constructed over one corrupt and one well-formed document,
\* and holds the well-formed one only
C21_Witness ==
    /\ Constructed /\ last.faults = {}
    /\ fs[SnapshotPath("s1")].t = "file"
    /\ fs[SnapshotPath("s2")].t = "json"
    /\ DictKeys(snapshots) = {"s2"}
    /\ DOMAIN snapshot_data = {"s2"}

-----------------------------------------------------------------------------
(* tools.py: the tool calls, each of which begins with get_virtual_fs() *)

\* the tools state after a call: the filesystem the call got for its
\* provider, and what the call answers
Answer(t, g, op, prov, fails, mgr, result, names) ==
    [t EXCEPT !.lastFor[prov] = IF g.result = "returned" THEN g.inst ELSE @,
              !.ret = ToolRet(op, prov, fails, g.inst, g.result, mgr, result, names)]

ManagerUntouched ==
    UNCHANGED <<caps, fs, ext, clock, snapshots, snapshot_data, last, treeAt, pristine,
                inflight, mem>>

\* get_virtual_fs(prov) on its own
ToolGetFs(prov, fails) ==
    LET g == GetVirtualFs(tools, prov, fails)
    IN  /\ g.t.made <= MaxInstances
        /\ fails \subseteq Attempted(tools, prov, fails)
        /\ tools' = Answer(AfterGet(g), g, "get_virtual_fs", prov, fails, 0, g.result, {})
        /\ ManagerUntouched

\* the tool write_file(path, content)
ToolWriteFile(prov, fails, p) ==
    LET g == GetVirtualFs(tools, prov, fails)
        t1 == AfterGet(g)
    IN  /\ g.t.made <= MaxInstances
        /\ fails \subseteq Attempted(tools, prov, fails)
        /\ tools' = IF g.result # "returned"
                    THEN Answer(t1, g, "write_file", prov, fails, 0, "ValueError", {})
                    ELSE Answer(WithFiles(t1, g.inst, Visible(t1, g.inst) \cup {p}),
                                g, "write_file", prov, fails, 0, "returned", {})
        /\ ManagerUntouched

\* the tool create_snapshot(name): the manager of the filesystem captures
\* the files of the filesystem under the name
ToolCreateSnapshot(prov, fails, name) ==
    LET g == GetVirtualFs(tools, prov, fails)
        t1 == AfterGet(g)
    IN  /\ g.t.made <= MaxInstances
        /\ fails \subseteq Attempted(tools, prov, fails)
        /\ IF g.result # "returned"
           THEN tools' = Answer(t1, g, "create_snapshot", prov, fails, 0, "ValueError", {})
           ELSE LET sm == GetSnapshotManager(t1, g.inst)
                    t2 == [sm.t EXCEPT !.snaps[sm.mgr][name] =
                                [has |-> TRUE, files |-> Visible(t1, g.inst)]]
                IN  /\ sm.t.mgrs <= MaxInstances
                    /\ tools' = Answer(t2, g, "create_snapshot", prov, fails, sm.mgr,
                                       "returned", {})
        /\ ManagerUntouched

\* the tool list_snapshots(): the names the manager of the filesystem holds
ToolListSnapshots(prov, fails) ==
    LET g == GetVirtualFs(tools, prov, fails)
        t1 == AfterGet(g)
    IN  /\ g.t.made <= MaxInstances
        /\ fails \subseteq Attempted(tools, prov, fails)
        /\ IF g.result # "returned"
           THEN tools' = Answer(t1, g, "list_snapshots", prov, fails, 0, "ValueError", {})
           ELSE LET sm == GetSnapshotManager(t1, g.inst)
                IN  /\ sm.t.mgrs <= MaxInstances
                    /\ tools' = Answer(sm.t, g, "list_snapshots", prov, fails, sm.mgr,
                                       "returned",
                                       {n \in ToolNames : sm.t.snaps[sm.mgr][n].has})
        /\ ManagerUntouched

\* the tool restore_snapshot(name): ValueError for a name the manager does
\* not hold, else the files of the filesystem become those of the snapshot
ToolRestoreSnapshot(prov, fails, name) ==
    LET g == GetVirtualFs(tools, prov, fails)
        t1 == AfterGet(g)
    IN  /\ g.t.made <= MaxInstances
        /\ fails \subseteq Attempted(tools, prov, fails)
        /\ IF g.result # "returned"
           THEN tools' = Answer(t1, g, "restore_snapshot", prov, fails, 0, "ValueError", {})
           ELSE LET sm == GetSnapshotManager(t1, g.inst)
                    snap == sm.t.snaps[sm.mgr][name]
                IN  /\ sm.t.mgrs <= MaxInstances
                    /\ tools' = IF ~snap.has
                                THEN Answer(sm.t, g, "restore_snapshot", prov, fails,
                                            sm.mgr, "ValueError", {})
                                ELSE Answer(WithFiles(sm.t, g.inst, snap.files), g,
                                            "restore_snapshot", prov, fails, sm.mgr,
                                            "returned", {})
        /\ ManagerUntouched

\* _fs_cache.clear(): the filesystems of the cache, and the managers
\* attached to them, are referenced no more
ClearCache ==
    /\ \E k \in CacheKeys : tools.cache[k] # 0
    /\ tools' = [tools EXCEPT !.cache = [k \in CacheKeys |-> 0],
                              !.kind = [i \in Instances |-> "none"],
                              !.files = [i \in Instances |-> {}],
                              !.mgr = [i \in Instances |-> 0],
                              !.snaps = [m \in Instances |-> [n \in ToolNames |-> NoSnap]],
                              !.lastFor = [prov \in Providers |-> 0],
                              !.ret = ToolRet("clear", "", {}, 0, "", 0, "", {})]
    /\ ManagerUntouched

\* the tools over a memory tree without snapshots
InitTools == InitOver([hasFind : {TRUE}, wfEncoding : {TRUE}, hasNodeInfo : {TRUE}], {})

NextTools ==
    \/ \E prov \in Providers, fails \in SUBSET Providers : ToolGetFs(prov, fails)
    \/ \E prov \in Providers, fails \in SUBSET Providers, p \in ToolPaths :
            ToolWriteFile(prov, fails, p)
    \/ \E prov \in Providers, fails \in SUBSET Providers, n \in ToolNames :
            ToolCreateSnapshot(prov, fails, n)
    \/ \E prov \in Providers, fails \in SUBSET Providers : ToolListSnapshots(prov, fails)
    \/ \E prov \in Providers, fails \in SUBSET Providers, n \in ToolNames :
            ToolRestoreSnapshot(prov, fails, n)
    \/ ClearCache

SpecTools == InitTools /\ [][NextTools]_vars

-----------------------------------------------------------------------------
(* Properties of the tools *)

\* the call that was just made got a filesystem from get_virtual_fs
GotFs(r) == r.op \notin {"init", "clear"} /\ r.fsResult = "returned"

\* C22: get_virtual_fs is a cache: while _fs_cache is not cleared, a call
\* with the provider type and parameters of an earlier call returns the
\* filesystem that call returned, so that the files written through it are
\* still there; the first call after _fs_cache was cleared constructs a new
\* filesystem, which (for memory) holds none of the files written before
C22_Step ==
    GotFs(tools'.ret) =>
        LET r == tools'.ret
            before == tools.lastFor[r.prov]
        IN  /\ before # 0 => r.inst = before
            /\ tools.ret.op = "clear" =>
                    /\ r.inst = tools.made + 1
                    /\ (tools'.kind[r.inst] = "memory" /\ r.op # "write_file")
                            => Visible(tools', r.inst) = {}
C22_FsCache == [][C22_Step]_vars

\* C23: get_snapshot_manager gives one manager per filesystem: the first
\* call attaches a new manager, every later call for that filesystem returns
\* the attached one, so that a snapshot created through a tool call on the
\* filesystem is listed, and can be restored, by the later tool calls on it
C23_Step ==
    LET r == tools'.ret
    IN  (GotFs(r) /\ r.op \in {"create_snapshot", "list_snapshots", "restore_snapshot"}) =>
            LET had == tools.mgr[r.inst]
                held == IF had = 0 THEN {} ELSE {n \in ToolNames : tools.snaps[had][n].has}
            IN  /\ r.mgr # 0 /\ tools'.mgr[r.inst] = r.mgr
                /\ had # 0 => r.mgr = had
                /\ had = 0 => r.mgr = tools.mgrs + 1
                /\ \A i \in Instances \ {r.inst} : tools'.mgr[i] = tools.mgr[i]
                /\ r.op = "list_snapshots" => r.names = held
                /\ (r.op = "restore_snapshot" /\ held = ToolNames) =>
                        /\ r.result = "returned"
                        /\ \E n \in held :
                              Visible(tools', r.inst) = tools.snaps[had][n].files
                /\ r.op = "create_snapshot" =>
                        held \subseteq {n \in ToolNames : tools'.snaps[r.mgr][n].has}
C23_OneManagerPerFs == [][C23_Step]_vars

\* a tool call listed the snapshot an earlier tool call created on the
\* filesystem, whose files have changed since
C23_Witness ==
    /\ tools.ret.op = "list_snapshots" /\ tools.ret.names = {"s1"}
    /\ tools.ret.mgr = tools.mgr[tools.ret.inst]
    /\ Visible(tools, tools.ret.inst) # tools.snaps[tools.ret.mgr]["s1"].files

\* C24: when the construction of the S3 filesystem raises, get_virtual_fs
\* returns a memory filesystem and does not raise: the one cached under
\* "memory" when there is one, else a new one, which it caches there, so that
\* the later calls that fall back return the same one; ValueError is raised
\* only when the construction of the fallback raises too, or when the
\* construction for another provider than S3 raises
C24_Step ==
    LET r == tools'.ret
        memKey == BuildCacheKey("memory")
        tried == tools.cache[BuildCacheKey(r.prov)] = 0
        fellBack == r.prov = "s3" /\ tried /\ "s3" \in r.fails
    IN  r.op \notin {"init", "clear"} =>
            /\ fellBack =>
                 /\ tools.cache[memKey] # 0 =>
                        r.fsResult = "returned" /\ r.inst = tools.cache[memKey]
                 /\ (tools.cache[memKey] = 0 /\ "memory" \notin r.fails) =>
                        /\ r.fsResult = "returned" /\ r.inst = tools.made + 1
                        /\ tools'.kind[r.inst] = "memory"
                 /\ r.fsResult = "returned" =>
                        /\ tools'.cache[memKey] = r.inst
                        /\ tools'.cache[BuildCacheKey("s3")] = 0
            /\ r.fsResult = "ValueError" <=>
                 \/ fellBack /\ tools.cache[memKey] = 0 /\ "memory" \in r.fails
                 \/ r.prov # "s3" /\ tried /\ r.prov \in r.fails
C24_ProviderFallback == [][C24_Step]_vars

\* a call fell back and got the memory filesystem that an earlier call had
\* cached, with the file written through it
C24_Witness ==
    /\ tools.ret.prov = "s3" /\ "s3" \in tools.ret.fails
    /\ tools.ret.fsResult = "returned"
    /\ tools.lastFor["s3"] = tools.cache[BuildCacheKey("memory")]
    /\ tools.ret.inst = tools.cache[BuildCacheKey("memory")]
    /\ tools.ret.op = "list_snapshots"
    /\ tools.files[tools.ret.inst] = ToolPaths
    /\ tools.cache[BuildCacheKey("s3")] = 0

-----------------------------------------------------------------------------
(* Properties of restore_snapshot's calls *)

\* the phase a call belongs to
Phase(call) == CASE call.op = "rm" -> 1 [] call.op = "mkdir" -> 2 [] OTHER -> 3

\* C25: the calls of a restore come in three phases: every rm before the
\* first mkdir, every mkdir before the first write_file, and before a file is
\* written a mkdir was issued for its parent directory; the tree the restore
\* leaves is the one these calls leave
C25_Step ==
    (last'.op = "restore" /\ last'.result = "returned") =>
        LET payload == snapshot_data[last'.name]
            calls == RestoreCalls(caps, fs, payload)
        IN  /\ ApplyCalls(caps, fs, payload, calls, last'.faults) = fs'
            /\ \A i, j \in 1..Len(calls) : i < j => Phase(calls[i]) <= Phase(calls[j])
            /\ \A p \in DOMAIN payload : \E j \in 1..Len(calls) :
                    calls[j] = FsCall("write_file", p)
            /\ \A j \in 1..Len(calls) :
                    (calls[j].op = "write_file" /\ Dirname(calls[j].path) # <<>>) =>
                        \E i \in 1..(j - 1) : calls[i] = FsCall("mkdir", Dirname(calls[j].path))
C25_RestorePhases == [][C25_Step]_vars

\* a restore whose calls all succeeded wrote two files, one of them into a
\* directory, and left the tree that was captured
C25_Witness ==
    /\ Restored /\ last.ok /\ last.faults = {}
    /\ DOMAIN snapshot_data[last.name] = {PathA, PathDX}
    /\ IsFileNode(fs[PathA]) /\ IsFileNode(fs[PathDX])
    /\ treeAt[last.name] # NoTree /\ UserTree(fs) = treeAt[last.name]

-----------------------------------------------------------------------------
(* Properties of the classification of paths *)

\* C26: in a capture, a path whose node info says is_dir is not a key of the
\* payload, so that a directory without files leaves no trace; a path the
\* walk yields for which there is no node info is taken for a file: it is
\* read, and stored with its content when the read succeeds
C26_CaptureClassification ==
    (last.op = "create" /\ last.result = "returned" /\ last.faults = {}) =>
        LET payload == snapshot_data[last.name]
        IN  /\ \A p \in DOMAIN payload : ~IsDir(fs, p)
            /\ ~caps.hasNodeInfo =>
                    \A p \in Enumerate(caps, fs) :
                        IsFileNode(fs[p]) =>
                            /\ p \in DOMAIN payload
                            /\ StoredFor(payload[p], fs[p].bytes)

\* a capture on a filesystem without node info stored the file of a
\* directory and not the directory
C26_Witness ==
    /\ last.op = "create" /\ last.result = "returned"
    /\ ~caps.hasNodeInfo
    /\ IsDir(fs, PathD)
    /\ DOMAIN snapshot_data[last.name] = {PathDX}

-----------------------------------------------------------------------------
(* Properties of what restore_snapshot and export_snapshot leave alone *)

\* C27: a restore removes no directory: its deletion phase calls rm, never
\* rmdir, and only for paths outside the payload that are classified as
\* files; every directory of the tree before the restore, one made after the
\* capture included, is a directory after it
C27_Step ==
    (last'.op = "restore" /\ last'.result = "returned") =>
        LET payload == snapshot_data[last'.name]
            calls == RestoreCalls(caps, fs, payload)
        IN  /\ ApplyCalls(caps, fs, payload, calls, last'.faults) = fs'
            /\ \A i \in 1..Len(calls) :
                    /\ calls[i].op \in {"rm", "mkdir", "write_file"}
                    /\ calls[i].op = "rm" =>
                            /\ calls[i].path \notin DOMAIN payload
                            /\ ~(caps.hasNodeInfo /\ IsDir(fs, calls[i].path))
            /\ \A p \in AllPaths : IsDir(fs, p) => IsDir(fs', p)
C27_RestoreKeepsDirectories == [][C27_Step]_vars

\* a restore removed the file of a directory that was made after the
\* capture, and the directory is still there, empty
C27_Witness ==
    /\ Restored /\ last.removed
    /\ treeAt[last.name] # NoTree /\ ~(treeAt[last.name][PathD].t = "dir")
    /\ IsDir(fs, PathD) /\ ~Exists(fs, PathDX)

\* C28: a restore leaves the snapshot store as it was: _snapshots,
\* _snapshot_data and every document beneath the reserved directory are the
\* same before and after it
C28_Step ==
    last'.op = "restore" =>
        /\ snapshots' = snapshots
        /\ snapshot_data' = snapshot_data
        /\ \A p \in AllPaths : Reserved(p) => fs'[p] = fs[p]
C28_RestoreLeavesStore == [][C28_Step]_vars

\* C29: export_snapshot only reads the manager's state: for a name that is
\* not in the index it raises ValueError and the external file is as before
\* (not created, not truncated); for a name in the index the managed
\* filesystem, the index entry with its created value and the payload are
\* as before
C29_Step ==
    last'.op = "export" =>
        /\ fs' = fs
        /\ snapshots' = snapshots
        /\ snapshot_data' = snapshot_data
        /\ last'.name \notin DictKeys(snapshots) =>
                /\ last'.result = "ValueError"
                /\ ext' = ext
        /\ last'.name \in DictKeys(snapshots) =>
                /\ last'.result = "returned"
                /\ DictGet(snapshots', last'.name).created
                        = DictGet(snapshots, last'.name).created
C29_ExportOnlyReads == [][C29_Step]_vars

\* an export of an unknown name raised, and the file an earlier export wrote
\* still holds that export
C29_Witness ==
    /\ last.op = "export" /\ last.result = "ValueError"
    /\ last.name \notin DictKeys(snapshots)
    /\ ext[last.path].t = "json" /\ ext[last.path].exportedOf = "s1"

-----------------------------------------------------------------------------
(* Properties of the entries a constructor loads *)

\* C30: after the load of a constructor every index entry has a datetime as
\* its created value: the one the document's ISO string stands for, or the
\* time of the load when the document's created is a string that does not
\* parse, is missing, or is no string; such a document is loaded all the same
C30_LoadedCreatedIsTimestamp ==
    Constructed =>
        /\ \A i \in DOMAIN snapshots : IsDateTime(snapshots[i].created)
        /\ \A n \in Names :
                (DocReadable(fs, n, last.faults) /\ SnapshotDir \notin last.faults) =>
                    /\ n \in DictKeys(snapshots)
                    /\ LET given == DocGet(fs[SnapshotPath(n)].doc, "created", NoneVal)
                       IN  DictGet(snapshots, n).created =
                               IF given.k = "isostr" THEN DateTime(given.t)
                               ELSE DateTime(clock)

-----------------------------------------------------------------------------
(* Properties of the index and the payloads taken together *)

C34_PersistedAgrees ==
    \A n \in Names :
        NodeAt(fs, SnapshotPath(n)).t = "json" =>
            LET doc == fs[SnapshotPath(n)].doc
            IN  /\ n \in DictKeys(snapshots)
                /\ DocGet(doc, "description", "") = DictGet(snapshots, n).description
                /\ DocGet(doc, "created", NoneVal) = IsoFormat(DictGet(snapshots, n).created)
                /\ DocGet(doc, "files", EmptyFiles) = snapshot_data[n]

-----------------------------------------------------------------------------
(* Properties of repeated restores *)

\* C35: restore is idempotent: after restore_snapshot(n), on which no call
\* raised, a second restore_snapshot(n) with nothing in between leaves the
\* tree as it is, and its deletion phase removes nothing
C35_RestoreIdempotent ==
    (Restored /\ last.faults = {}) =>
        LET again == RestoreFs(caps, fs, snapshot_data[last.name], {})
        IN  /\ again.fs = fs
            /\ again.removed = {}

\* a restore removed files and wrote the files of a payload that is not empty
C35_Witness ==
    /\ Restored /\ last.faults = {} /\ last.removed
    /\ DOMAIN snapshot_data[last.name] # {}
    /\ \E p \in DOMAIN snapshot_data[last.name] : IsFileNode(fs[p])

-----------------------------------------------------------------------------
(* Properties of the exclusion of the reserved directory *)

\* C36: only the reserved directory and the paths beneath it are excluded:
\* the file /.snapshots.txt, whose path begins with the same characters, is
\* captured by create_snapshot, and removed by restore_snapshot when the
\* payload does not have it, like any other file
C36_ExclusionIsTheDirectory ==
    /\ (last.op = "create" /\ last.result = "returned" /\ IsFileNode(fs[PathSibling])) =>
            PathSibling \in DOMAIN snapshot_data[last.name]
    /\ (Restored /\ last.ok /\ PathSibling \notin DOMAIN snapshot_data[last.name]) =>
            ~Exists(fs, PathSibling)

-----------------------------------------------------------------------------
(* Properties of one snapshot with respect to the others *)

\* C37: snapshots are independent: a create_snapshot or an import_snapshot
\* that stores the name a changes the index entry, the payload and the
\* document of a only; for every other name the metadata, the payload and
\* the document are as before, and no other name appears
C37_Step ==
    (last'.op \in {"create", "import"} /\ last'.result = "returned") =>
        \A b \in (Names \cup GeneratedNames) \ {last'.name} :
            /\ b \in DictKeys(snapshots') <=> b \in DictKeys(snapshots)
            /\ b \in DictKeys(snapshots) =>
                    /\ DictGet(snapshots', b) = DictGet(snapshots, b)
                    /\ snapshot_data'[b] = snapshot_data[b]
            /\ fs'[SnapshotPath(b)] = fs[SnapshotPath(b)]
C37_SnapshotsIndependent == [][C37_Step]_vars

\* an import stored s2 beside s1, whose entry, payload and document were
\* there before and still are
C37_Witness ==
    /\ last.op = "import" /\ last.result = "returned" /\ last.ok
    /\ last.name = "s2"
    /\ DictKeys(snapshots) = {"s1", "s2"}
    /\ NodeAt(fs, SnapshotPath("s1")).t = "json"
    /\ fs[SnapshotPath("s1")].doc.files = snapshot_data["s1"]
    /\ snapshot_data["s1"] # snapshot_data["s2"]

-----------------------------------------------------------------------------
(* tools.py: the tool delete(path, recursive) *)

\* fs.rmdir(path) without recursive: removes a directory that holds nothing
RmdirPlain(f, p) ==
    IF IsDir(f, p) /\ p # Root /\ \A q \in DOMAIN f : (Beneath(q, p) /\ q # p) => ~Exists(f, q)
    THEN FsOk([f EXCEPT ![p] = Absent])
    ELSE FsFail(f)

\* path_exists of delete: fs.exists(path), or what get_node_info or
\* ls(dirname) tell on a filesystem without exists
DeletePathExists(c, f, p) == Exists(f, p)

\* is_dir of delete: the node info's is_dir, or, on a filesystem without
\* get_node_info, whether ls(path) returns
DeleteIsDir(c, f, p) == IsDir(f, p)

\* the paths beneath a directory, deepest first: sorted(items, reverse=True)
RECURSIVE DeepestFirst(_)
DeepestFirst(S) ==
    IF S = {} THEN <<>>
    ELSE LET p == CHOOSE q \in S : \A r \in S : Len(r) <= Len(q)
         IN  <<p>> \o DeepestFirst(S \ {p})

\* what delete is called with and what the filesystem object is like:
\* recursive, whether rmdir takes recursive= (else it raises TypeError), and
\* whether a call that fails returns False (quiet) or raises
DeleteOptions == [recursive : BOOLEAN, rmdirKw : BOOLEAN, quiet : BOOLEAN]

\* the except TypeError branch for one item beneath the directory: rmdir
\* after an rm that raised, on a filesystem without get_node_info
ItemCalls(c, f, item, o) ==
    IF c.hasNodeInfo
    THEN (IF IsDir(f, item) THEN <<FsCall("rmdir", item)>> ELSE <<FsCall("rm", item)>>)
    ELSE IF IsFileNode(NodeAt(f, item)) \/ o.quiet THEN <<FsCall("rm", item)>>
         ELSE <<FsCall("rm", item), FsCall("rmdir", item)>>

RECURSIVE ItemsCalls(_, _, _, _)
ItemsCalls(c, f, items, o) ==
    IF items = <<>> THEN <<>>
    ELSE ItemCalls(c, f, Head(items), o) \o ItemsCalls(c, f, Tail(items), o)

\* the first rmdir of delete on a directory
FirstRmdir(p, o) ==
    FsCall(IF o.rmdirKw /\ o.recursive THEN "rmdir_recursive" ELSE "rmdir", p)

\* the tree after one call of delete; a call that fails leaves it as it is
ApplyDeleteCall(f, call) ==
    CASE call.op = "rm" -> Rm(f, call.path)
      [] call.op = "rmdir_recursive" -> Rmdir(f, call.path)
      [] OTHER -> RmdirPlain(f, call.path)

\* the first rmdir raises, outside every try that would catch it
DeleteRaises(c, f, p, o) ==
    /\ DeletePathExists(c, f, p) /\ DeleteIsDir(c, f, p)
    /\ ~o.quiet /\ ~ApplyDeleteCall(f, FirstRmdir(p, o)).ok

\* delete that leaves the look for the path out
DeleteCallsUnchecked(c, f, p, o) ==
    IF DeleteIsDir(c, f, p) THEN <<FirstRmdir(p, o), FsCall("rmdir", p)>>
    ELSE <<FsCall("rm", p)>>

\* the rm and rmdir calls of delete(p, recursive), in order: none for a
\* path that does not exist, rm for a file; for a directory rmdir, then, when
\* rmdir takes no recursive=, the items beneath it, then rmdir once more
DeleteCalls(c, f, p, o) ==
    IF ~DeletePathExists(c, f, p) THEN <<>>
    ELSE IF ~DeleteIsDir(c, f, p) THEN <<FsCall("rm", p)>>
    ELSE IF DeleteRaises(c, f, p, o) THEN <<FirstRmdir(p, o)>>
    ELSE <<FirstRmdir(p, o)>>
         \o (IF ~o.rmdirKw /\ o.recursive /\ c.hasFind
             THEN ItemsCalls(c, ApplyDeleteCall(f, FirstRmdir(p, o)).fs,
                             DeepestFirst({q \in Find(f) : Beneath(q, p) /\ q # p}), o)
             ELSE <<>>)
         \o <<FsCall("rmdir", p)>>

RECURSIVE ApplyDeleteCalls(_, _)
ApplyDeleteCalls(f, calls) ==
    IF calls = <<>> THEN f
    ELSE ApplyDeleteCalls(ApplyDeleteCall(f, Head(calls)).fs, Tail(calls))

\* the message of the DeleteResult
DeleteMessage(c, f, p) ==
    IF ~DeletePathExists(c, f, p) THEN "does not exist"
    ELSE IF DeleteIsDir(c, f, p) THEN "Directory deleted" ELSE "File deleted"

\* the tool delete(p, recursive): a DeleteResult with its message, or the
\* ValueError that wraps what was raised
ToolDelete(p, o) ==
    /\ fs' = ApplyDeleteCalls(fs, DeleteCalls(caps, fs, p, o))
    /\ pristine' = (pristine /\ ~Reserved(p))
    /\ last' = [Call("delete",
                     IF DeleteRaises(caps, fs, p, o) THEN "" ELSE DeleteMessage(caps, fs, p),
                     "",
                     IF DeleteRaises(caps, fs, p, o) THEN "ValueError" ELSE "returned",
                     {}, TRUE, fs' # fs, DeletePathExists(caps, fs, p))
                EXCEPT !.arg = <<p, o>>]
    /\ UNCHANGED <<inflight, mem, tools, caps, ext, clock, snapshots, snapshot_data, treeAt>>

\* what callers write before they delete: a top-level file and a nested one
DeleteInputs == { <<PathA, Utf8Encode(TextPlain)>>, <<PathDX, Utf8Encode(TextPlain)>> }

InitDelete ==
    InitOver([hasFind : BOOLEAN, wfEncoding : {TRUE}, hasNodeInfo : BOOLEAN], DeleteInputs)

NextDelete ==
    \/ \E w \in DeleteInputs : FsWriteFile(w[1], w[2])
    \/ FsMkdir(PathD)
    \/ \E p \in {PathA, PathD, PathDX}, o \in DeleteOptions : ToolDelete(p, o)

SpecDelete == InitDelete /\ [][NextDelete]_vars

\* C32: delete of a path that does not exist returns a result whose message
\* says so, raises nothing and calls neither rm nor rmdir; delete of a path
\* that exists calls rmdir for the path when it is classified as a directory
\* and rm otherwise
C32_Step ==
    last'.op = "delete" =>
        LET p == last'.arg[1]
            calls == DeleteCalls(caps, fs, p, last'.arg[2])
            onPath == {i \in 1..Len(calls) : calls[i].path = p}
        IN  /\ fs' = ApplyDeleteCalls(fs, calls)
            /\ ~Exists(fs, p) =>
                    /\ calls = <<>> /\ fs' = fs
                    /\ last'.result = "returned"
                    /\ last'.name = "does not exist"
            /\ (Exists(fs, p) /\ IsDir(fs, p)) =>
                    /\ onPath # {}
                    /\ \A i \in onPath : calls[i].op \in {"rmdir", "rmdir_recursive"}
            /\ (Exists(fs, p) /\ ~IsDir(fs, p)) => calls = <<FsCall("rm", p)>>
C32_DeleteTool == [][C32_Step]_vars

\* delete of a file that is not there, in a directory that is, said so
C32_Witness ==
    /\ last.op = "delete" /\ last.name = "does not exist"
    /\ last.arg[1] = PathDX
    /\ IsDir(fs, PathD) /\ ~Exists(fs, PathDX)

-----------------------------------------------------------------------------
(* create_snapshot called from two threads: one action per statement. The
   manager has no lock, so between any two statements of one call the other
   call may run; the locals of a call are its own, _snapshots,
   _snapshot_data and the filesystem are shared. *)

\* the locals of a call: position, arguments, snapshot_data, timestamp,
\* export_data
Locals(pc, name, description, payload, timestamp, export) ==
    [pc |-> pc, name |-> name, description |-> description, payload |-> payload,
     timestamp |-> timestamp, export |-> export]

\* no call is between its first and its last statement
Quiescent == \A t \in Threads : inflight[t].pc \in {"idle", "done"}

\* how many calls have captured and not yet read the clock
Unstamped == Cardinality({t \in Threads : inflight[t].pc = "captured"})

\* the step of a call: the shared state it leaves is given by the caller
Step(t, pc, loc) ==
    /\ inflight' = [inflight EXCEPT ![t] = [loc EXCEPT !.pc = pc]]
    /\ last' = Call("step", loc.name, "", pc, {}, TRUE, FALSE, FALSE)
    /\ UNCHANGED <<mem, tools, caps, ext>>

\* the meta of a call, built by itself
OwnMeta(loc) ==
    Meta(loc.name,
         IF loc.description # "" THEN loc.description
         ELSE DefaultDescription(loc.timestamp.t),
         loc.timestamp)

\* lines 96-132: the enumeration and the capture loop
CallCapture(t, name, description) ==
    /\ inflight[t].pc \in {"idle", "done"}
    /\ clock + Unstamped < MaxClock
    /\ Step(t, "captured",
            Locals("", name, description, CapturePayload(caps, fs, {}), NoneVal, NoneVal))
    /\ UNCHANGED <<fs, clock, snapshots, snapshot_data, treeAt, pristine>>

\* line 134: timestamp = datetime.now()
CallStamp(t) ==
    /\ inflight[t].pc = "captured"
    /\ Step(t, "stamped", [inflight[t] EXCEPT !.timestamp = DateTime(clock)])
    /\ clock' = clock + 1
    /\ UNCHANGED <<fs, snapshots, snapshot_data, treeAt, pristine>>

\* lines 135-139: self._snapshots[name] = {...}
CallSetIndex(t) ==
    /\ inflight[t].pc = "stamped"
    /\ Step(t, "indexed", inflight[t])
    /\ snapshots' = DictSet(snapshots, inflight[t].name, OwnMeta(inflight[t]))
    /\ UNCHANGED <<fs, clock, snapshot_data, treeAt, pristine>>

\* line 140: self._snapshot_data[name] = snapshot_data
CallSetData(t) ==
    /\ inflight[t].pc = "indexed"
    /\ Step(t, "cached", inflight[t])
    /\ snapshot_data' = DataSet(snapshot_data, inflight[t].name, inflight[t].payload)
    /\ treeAt' = [treeAt EXCEPT ![inflight[t].name] = NoTree]
    /\ UNCHANGED <<fs, clock, snapshots, pristine>>

\* _save_snapshot, lines 152-174: the directory is made when it is missing and
\* export_data is built from what the two dicts hold now
CallBuildExport(t) ==
    LET name == inflight[t].name
    IN  /\ inflight[t].pc = "cached"
        /\ Step(t, "built",
                [inflight[t] EXCEPT !.export = ExportData(snapshots, snapshot_data, name)])
        /\ fs' = IF Exists(fs, SnapshotDir) THEN fs ELSE Mkdir(fs, SnapshotDir, FALSE).fs
        /\ UNCHANGED <<clock, snapshots, snapshot_data, treeAt, pristine>>

\* _save_snapshot, lines 177-183: write_file of the document, then the return
\* of create_snapshot
CallWrite(t) ==
    LET saved == WriteNode(fs, SnapshotPath(inflight[t].name), JsonFile(inflight[t].export))
    IN  /\ inflight[t].pc = "built"
        /\ Step(t, "done", inflight[t])
        /\ fs' = saved.fs
        /\ pristine' = (pristine /\ saved.ok)
        /\ UNCHANGED <<clock, snapshots, snapshot_data, treeAt>>

ConcInputs == { <<PathA, Utf8Encode(TextPlain)>>, <<PathA, Utf8Encode(TextMarker)>> }

ConcDescriptions == {"", "desc"}

InitConc == InitOver([hasFind : {TRUE}, wfEncoding : {TRUE}, hasNodeInfo : {TRUE}], ConcInputs)

\* two threads capture under one name; the tree changes between calls only
NextConc ==
    \/ \E w \in ConcInputs : Quiescent /\ FsWriteFile(w[1], w[2])
    \/ \E t \in Threads, d \in ConcDescriptions : CallCapture(t, "s1", d)
    \/ \E t \in Threads : CallStamp(t)
    \/ \E t \in Threads : CallSetIndex(t)
    \/ \E t \in Threads : CallSetData(t)
    \/ \E t \in Threads : CallBuildExport(t)
    \/ \E t \in Threads : CallWrite(t)

SpecConc == InitConc /\ [][NextConc]_vars

\* the Index entry, the cached payload and the document of a name are those
\* of the call t
AllFrom(t) ==
    LET loc == inflight[t]
    IN  /\ loc.pc = "done"
        /\ DictGet(snapshots, loc.name) = OwnMeta(loc)
        /\ snapshot_data[loc.name] = loc.payload
        /\ fs[SnapshotPath(loc.name)] =
               JsonFile(Doc(loc.name, OwnMeta(loc).description,
                            IsoFormat(loc.timestamp), loc.payload))

\* C31: when the create_snapshot calls of two threads for one name have
\* interleaved and all have returned, the Index entry, the cached payload and
\* the persisted document of the name all come from one and the same call
C31_LastWriterWins ==
    (Quiescent /\ \E t \in Threads : inflight[t].pc = "done")
        => \E t \in Threads : AllFrom(t)

-----------------------------------------------------------------------------
(* The in-memory SimpleSnapshotManager of tools.py, on a filesystem of its
   own, next to the persisting manager: each call made on the persisting
   manager is then made on the in-memory one. *)

\* bytes, as opposed to str, in a payload of the in-memory manager
RawBytes(bytes) == <<-1>> \o bytes
IsRawBytes(content) == Len(content) > 0 /\ content[1] = -1

\* the paths the in-memory manager looks at: fs.find("/", recursive=True), or
\* without find the entries of ls("/"); nothing is left out
EnumerateMem(c, f) ==
    IF c.hasFind THEN Find(f) ELSE {Root \o item : item \in Ls(f, Root)}

\* what the in-memory create_snapshot stores for a file: its text, or its
\* bytes as they are when the text read raises ValueError
StoredMem(f, p) ==
    IF ReadTextRaises(f, p) THEN RawBytes(ReadBytes(f, p)) ELSE ReadText(f, p)

\* the capture loop of the in-memory create_snapshot
CapturePayloadMem(c, f) ==
    LET kept == {p \in EnumerateMem(c, f) : ~ClassifiedDir(c, f, p) /\ IsFileNode(NodeAt(f, p))}
    IN  [p \in kept |-> StoredMem(f, p)]

\* the write phase of the in-memory restore_snapshot: write_file(path,
\* content, encoding="utf-8"), or write_file(path, content) on TypeError
RECURSIVE RestoreWritesMem(_, _, _)
RestoreWritesMem(f, payload, todo) ==
    IF todo = {} THEN f
    ELSE LET p == CHOOSE q \in todo : TRUE
             bytes == IF IsRawBytes(payload[p]) THEN Tail(payload[p])
                      ELSE Utf8Encode(payload[p])
         IN  RestoreWritesMem(WriteNode(f, p, File(bytes)).fs, payload, todo \ {p})

\* the three phases of the in-memory restore_snapshot
RestoreFsMem(c, f, payload) ==
    LET removed == {p \in EnumerateMem(c, f) \ DOMAIN payload :
                        ~ClassifiedDir(c, f, p) /\ Rm(f, p).ok}
        f1 == [p \in DOMAIN f |-> IF p \in removed THEN Absent ELSE f[p]]
        f2 == RestoreMkdirs(f1, DOMAIN payload, {}).fs
    IN  RestoreWritesMem(f2, payload, DOMAIN payload)

\* SimpleSnapshotManager(fs) of tools.py over the tree f
MemManager(f) == [on |-> TRUE, fs |-> f, snapshots |-> <<>>, snapshot_data |-> <<>>]

\* a step of the in-memory manager
MemStep(m) ==
    /\ mem' = m
    /\ last' = Call("mem", last.name, "", last.op, {}, TRUE, FALSE, FALSE)
    /\ UNCHANGED <<inflight, tools, caps, fs, ext, clock, snapshots, snapshot_data,
                   treeAt, pristine>>

\* the in-memory create_snapshot(name, description)
MemCreateSnapshot(name, description) ==
    LET meta == Meta(name,
                     IF description # "" THEN description ELSE DefaultDescription(clock),
                     DateTime(clock))
    IN  MemStep([mem EXCEPT
                    !.snapshots = DictSet(mem.snapshots, name, meta),
                    !.snapshot_data = DataSet(mem.snapshot_data, name,
                                              CapturePayloadMem(caps, mem.fs))])

\* the in-memory restore_snapshot(name): ValueError for an unknown name
MemRestoreSnapshot(name) ==
    IF name \notin DictKeys(mem.snapshots) THEN MemStep(mem)
    ELSE MemStep([mem EXCEPT !.fs = RestoreFsMem(caps, mem.fs, mem.snapshot_data[name])])

\* the in-memory list_snapshots
MemListSnapshots == MemStep(mem)

\* the persisting manager's turn: the in-memory one has made the last call
InStep == last.op \in {"init", "mem"}

\* two filesystems with the same text-only tree, the in-memory one without
\* the reserved directory
InitPair ==
    /\ InitBase([hasFind : BOOLEAN, wfEncoding : {TRUE}, hasNodeInfo : BOOLEAN], TreeInputs)
    /\ mem = MemManager([fs EXCEPT ![SnapshotDir] = Absent])

NextPair ==
    \/ \E in \in CreateInputs : InStep /\ CreateSnapshot(in[1], in[2], {}, "none")
    \/ \E n \in Names : InStep /\ RestoreSnapshot(n, {})
    \/ InStep /\ ListSnapshots
    \/ \E in \in CreateInputs :
            last.op = "create" /\ last.name = in[1] /\ MemCreateSnapshot(in[1], in[2])
    \/ \E n \in Names : last.op = "restore" /\ last.name = n /\ MemRestoreSnapshot(n)
    \/ last.op = "list" /\ MemListSnapshots

SpecPair == InitPair /\ [][NextPair]_vars

\* C38: after every call made on both managers, the persisting manager and
\* the in-memory manager hold the same Index names and the same payload per
\* name, and their filesystems hold the same files with the same contents
\* outside the reserved namespace
C38_ManagersAgree ==
    InStep =>
        /\ DictKeys(snapshots) = DictKeys(mem.snapshots)
        /\ \A n \in DictKeys(snapshots) \cap DictKeys(mem.snapshots) :
               snapshot_data[n] = mem.snapshot_data[n]
        /\ UserTree(fs) = UserTree(mem.fs)

====
